---- MODULE Spec2Model ----
(***************************************************************************)
(* Delivery pipeline of fb-discord-relay: the signed-webhook ingress, the  *)
(* post store with its status state machine, the process-post queue and   *)
(* the worker that fetches, filters and dispatches each post.              *)
(*                                                                         *)
(* Every await of the TypeScript code is one step of the model, so two     *)
(* handlers (or two workers) interleave exactly at the points where the    *)
(* event loop or another process can run.                                  *)
(***************************************************************************)
EXTENDS Integers, Sequences, FiniteSets, TLC

(***************************************************************************)
(* Bounds of the model                                                     *)
(***************************************************************************)
\* webhook deliveries handled by the ingress
MaxReq == 2
\* characters after the prefix of an X-Hub-Signature-256 header
MaxSigLen == 3
\* retryable outcomes (fetch or sink) the environment produces in one run
MaxRaise == 1
\* active jobs the queue expires and hands out again while their handler runs
MaxExpire == 1
\* direct calls of the store operations in the operation-level specification
MaxCalls == 3
\* characters of a message text handed to a helper function
MaxText == 4
\* entries of CHANNEL_PRIORITY
MaxPriority == 2
\* largest maxLength sanitizeForDiscord is called with
MaxLimit == 5

PostIds == {"p1", "p2"}
Workers == {1, 2}
Reqs == 1..MaxReq

(***************************************************************************)
(* Program constants                                                       *)
(***************************************************************************)
\* boss.work(..., { batchSize: 5 }, ...)
batchSize == 5
\* new PgBoss({ retryLimit: 5, ... })
retryLimit == 5

Null == "null"

PostStatus ==
  {"received", "fetching", "eligible", "sending",
   "delivered", "ignored", "failed", "needs_review"}

\* const VALID_TRANSITIONS: Record<PostStatus, PostStatus[]>
VALID_TRANSITIONS ==
  [s \in PostStatus |->
     CASE s = "received"     -> {"fetching"}
       [] s = "fetching"     -> {"eligible", "ignored", "failed", "received"}
       [] s = "eligible"     -> {"sending"}
       [] s = "sending"      -> {"delivered", "failed", "needs_review"}
       [] s = "delivered"    -> {}
       [] s = "ignored"      -> {}
       [] s = "failed"       -> {"received"}
       [] s = "needs_review" -> {"received"}]

\* config.META_PAGE_ID and an author that is not the page
PAGE_ID == "page"
OTHER_ID == "other"

\* the error texts the pipeline stores in last_error
ErrNotFromPage == "Post not from configured page"
ErrFetchRetryable == "fetch: retryable"
ErrFetchFatal == "fetch: non-retryable"
ErrRateLimited == "Rate limited"
ErrSinkFatal == "HTTP 4xx"
ErrTimedOut == "Request timed out - delivery status unknown"

\* config.TRIGGER_TAG and a hashtag that CHANNEL_ROUTES may route
TRIGGER_TAG == "#discord"
ROUTE_TAG == "#stockmarketnews"

\* classes of message text: with the trigger tag, with the routable hashtag
\* only, without any hashtag
MsgKinds == {"tagged", "routed", "untagged"}

\* the hashtags a message of each class contains
MsgTags(message) ==
  CASE message = "tagged" -> {TRIGGER_TAG}
    [] message = "routed" -> {ROUTE_TAG}
    [] OTHER              -> {}

\* no row for the fb_post_id: what findUnique answers with null for
NoRow ==
  [status |-> "absent", retryCount |-> 0, lastError |-> Null,
   discordMsgId |-> Null, authorId |-> Null, message |-> Null]

\* the local variable post of transitionPost and markForRetry before the read
NotRead ==
  [status |-> "unread", retryCount |-> 0, lastError |-> Null,
   discordMsgId |-> Null, authorId |-> Null, message |-> Null]

\* a post row as prisma.post.create leaves it
NewRow ==
  [status |-> "received", retryCount |-> 0, lastError |-> Null,
   discordMsgId |-> Null, authorId |-> Null, message |-> Null]

VARIABLES
  config,        \* the parsed environment: fixed for a run
  posts,         \* posts table: fb_post_id -> row or NoRow
  events,        \* post_events: fb_post_id -> sequence of event names
  deliveryLogs,  \* delivery_logs: fb_post_id -> sequence of success flags
  queue,         \* the process-post jobs, in creation order
  req,           \* ingress: one record per webhook delivery
  wk,            \* worker: position in the batch handler and in processPost
  fetchCalls,    \* fb_post_id -> upstream fetches made
  sinkCalls,     \* fb_post_id -> sink calls made
  raised,        \* retryable outcomes produced so far
  expired,       \* jobs expired so far
  calls,         \* direct calls made (operation-level specification)
  util,          \* the call of a helper function looked at on its own
  startup        \* worker -> what its two startup probes answered

vars ==
  <<config, posts, events, deliveryLogs, queue, req, wk,
    fetchCalls, sinkCalls, raised, expired, calls, util, startup>>

storeVars == <<posts, events>>


(***************************************************************************)
(* Records                                                                 *)
(***************************************************************************)
\* one post_events row: the event name and what the model keeps of details
Event(name, details) == [event |-> name, details |-> details]

\* one event name for every target
StatusEvent_Fixed(toStatus) == "status_fetching"

\* event: `status_${toStatus}`
StatusEvent(toStatus) == "status_" \o toStatus

\* a worker that holds no job and runs no call; status is post.status as the
\* execution read it at its start
IdleWorker ==
  [pc |-> "idle", batch |-> <<>>, pos |-> 0, post |-> Null, fb |-> Null,
   send |-> Null, to |-> Null, err |-> Null, msgId |-> Null, details |-> Null,
   ret |-> Null, rd |-> NotRead, result |-> Null, fetchError |-> Null,
   status |-> Null]

\* no request body, no signature header
NoBody == "none"
NoHeader == <<>>

\* the query of a request without hub.mode, hub.verify_token, hub.challenge
NoQuery == [mode |-> Null, token |-> Null, challenge |-> Null]

\* a request that has not arrived yet; ret is who awaits getOrCreatePost (the
\* enqueue loop, or a direct caller, who keeps created); text is the body of
\* the answer where the model keeps it
IdleReq ==
  [pc |-> "idle", items |-> <<>>, i |-> 0, reply |-> 0,
   raw |-> NoBody, sig |-> NoHeader, ret |-> "loop", created |-> FALSE,
   query |-> NoQuery, text |-> Null]

\* no helper function has been called on its own
NoCall == [fn |-> "none"]

\* a worker whose probes both answered true: it listens for jobs
Started == [fbOk |-> "true", discordOk |-> "true"]

\* a worker process at the first line of main()
NotStarted == [fbOk |-> "pending", discordOk |-> "pending"]

\* the jobs that count for the singleton key: created, active or retry
LiveStates == {"created", "active", "retry"}

LiveJobs(q, key) ==
  {i \in 1..Len(q) : q[i].key = key /\ q[i].state \in LiveStates}

JobsOf(q, key) == {i \in 1..Len(q) : q[i].key = key}

(***************************************************************************)
(* Initial state: empty tables, an empty queue, nothing in flight          *)
(***************************************************************************)
ConfigSet ==
  [ALERTS_ENABLED : BOOLEAN, MAX_POST_AGE_MINUTES : {0, 30},
   CHANNEL_ROUTES : {{}, {ROUTE_TAG}}]

InitStore ==
  /\ posts = [p \in PostIds |-> NoRow]
  /\ events = [p \in PostIds |-> <<>>]
  /\ deliveryLogs = [p \in PostIds |-> <<>>]
  /\ queue = <<>>
  /\ req = [r \in Reqs |-> IdleReq]
  /\ wk = [w \in Workers |-> IdleWorker]
  /\ fetchCalls = [p \in PostIds |-> 0]
  /\ sinkCalls = [p \in PostIds |-> 0]
  /\ raised = 0
  /\ expired = 0
  /\ calls = 0
  /\ util = NoCall
  /\ startup = [w \in Workers |-> Started]

Init ==
  /\ config \in ConfigSet
  /\ InitStore

(***************************************************************************)
(* Ingress: POST /webhook                                                  *)
(***************************************************************************)
\* what the handler collects for one feed change: posts.push({...})
WebhookMsgs == {Null, "tagged"}
\* value.created_time of the change: missing or present
WebhookTimes == {"absent", "present"}
\* the worker reads createdTime only next to a message, so a change without
\* a message stands for both
PostData ==
  {d \in [postId : PostIds, message : WebhookMsgs, createdTime : WebhookTimes] :
     d.message = Null => d.createdTime = "absent"}
\* a feed change that carries the post_id only
PlainData(fbPostId) ==
  [postId |-> fbPostId, message |-> Null, createdTime |-> "absent"]
\* payloads with one feed change, for the post p1
SinglePayloads == {<<d>> : d \in {d \in PostData : d.postId = "p1"}}
\* payloads with one feed change or two
Payloads ==
  {<<d>> : d \in PostData} \cup
  {<<d1, d2>> : d1 \in {d \in PostData : d.postId = "p1"},
                d2 \in {d \in PostData : d.postId = "p2"}}

\* the for loop over posts moves to its next element, or the handler replies 200
NextItem(rq) ==
  IF rq.i < Len(rq.items)
    THEN [rq EXCEPT !.pc = "find", !.i = rq.i + 1]
    ELSE [IdleReq EXCEPT !.pc = "done", !.reply = 200]

\* a signed page payload arrives and the handler reaches its enqueue loop;
\* deliveries are interchangeable, so they take the request slots in order
Webhook(r, payloads) ==
  /\ req[r].pc = "idle"
  /\ \A r2 \in Reqs : r2 < r => req[r2].pc # "idle"
  /\ \E items \in payloads :
       req' = [req EXCEPT ![r] = [IdleReq EXCEPT !.pc = "find", !.items = items,
                                                 !.i = 1]]
  /\ UNCHANGED <<config, util, startup, posts, events, deliveryLogs, queue, wk,
                 fetchCalls, sinkCalls, raised, expired, calls>>

\* what an awaited store or queue call does: it answers, or it throws
CallOutcomes == {"ok", "throws"}

\* getOrCreatePost returns { post, created }: the enqueue loop sends a job
\* when created is true and moves on when it is false
GocReturn(rq, created) ==
  IF rq.ret = "client" THEN [rq EXCEPT !.pc = "returned", !.created = created]
  ELSE IF created THEN [rq EXCEPT !.pc = "send"]
  ELSE NextItem(rq)

\* getOrCreatePost throws: the catch of the enqueue loop logs and moves on
GocThrow(rq) ==
  IF rq.ret = "client" THEN [rq EXCEPT !.pc = "threw"] ELSE NextItem(rq)

\* getOrCreatePost: prisma.post.findUnique, and the return of an existing row
GocFind(r) ==
  /\ req[r].pc = "find"
  /\ \E outcome \in CallOutcomes :
       LET p == req[r].items[req[r].i].postId IN
         req' = [req EXCEPT ![r] =
                   IF outcome = "throws" THEN GocThrow(@)
                   ELSE IF posts[p] = NoRow THEN [@ EXCEPT !.pc = "create"]
                   ELSE GocReturn(@, FALSE)]
  /\ UNCHANGED <<config, util, startup, posts, events, deliveryLogs, queue, wk,
                 fetchCalls, sinkCalls, raised, expired, calls>>

\* a store without the unique index on fb_post_id
UniqueViolation_Never(p) == FALSE

\* a second row for the same fb_post_id: prisma answers P2002
UniqueViolation(p) == posts[p] # NoRow

\* getOrCreatePost: prisma.post.create with its webhook_received event;
\* on P2002 the catch re-reads the winner, any other error leaves the loop body
GocCreate(r) ==
  /\ req[r].pc = "create"
  /\ \E outcome \in CallOutcomes :
       LET p == req[r].items[req[r].i].postId IN
         IF outcome = "throws"
           THEN /\ req' = [req EXCEPT ![r] = GocThrow(@)]
                /\ UNCHANGED storeVars
           ELSE IF UniqueViolation(p)
             THEN /\ req' = [req EXCEPT ![r].pc = "reread"]
                  /\ UNCHANGED storeVars
             ELSE /\ posts' = [posts EXCEPT ![p] = NewRow]
                  /\ events' = [events EXCEPT
                                  ![p] = Append(@, Event("webhook_received", Null))]
                  /\ req' = [req EXCEPT ![r] = GocReturn(@, TRUE)]
  /\ UNCHANGED <<config, util, startup, deliveryLogs, queue, wk,
                 fetchCalls, sinkCalls, raised, expired, calls>>

\* getOrCreatePost: findUniqueOrThrow after P2002; created is false
GocReread(r) ==
  /\ req[r].pc = "reread"
  /\ req' = [req EXCEPT ![r] = GocReturn(@, FALSE)]
  /\ UNCHANGED <<config, util, startup, posts, events, deliveryLogs, queue, wk,
                 fetchCalls, sinkCalls, raised, expired, calls>>

\* the queue with one more job for the key, unless a live job already has it
Enqueue(q, d) ==
  IF LiveJobs(q, d.postId) = {}
    THEN Append(q, [key |-> d.postId, state |-> "created",
                    retrycount |-> 0, message |-> d.message,
                    createdTime |-> d.createdTime])
    ELSE q

\* boss.send(PROCESS_POST_QUEUE, {...}, { singletonKey: postId }), reached only
\* when created is true; a queue failure is caught by the loop
BossSend(r) ==
  /\ req[r].pc = "send"
  /\ \E outcome \in CallOutcomes :
       queue' = IF outcome = "ok" THEN Enqueue(queue, req[r].items[req[r].i]) ELSE queue
  /\ req' = [req EXCEPT ![r] = NextItem(@)]
  /\ UNCHANGED <<config, util, startup, posts, events, deliveryLogs, wk,
                 fetchCalls, sinkCalls, raised, expired, calls>>

(***************************************************************************)
(* Worker: control flow of the batch handler and of processPost            *)
(***************************************************************************)
\* the fb_post_id of the job the handler is at: job.data.fbPostId
JobPost(rec) == queue[rec.batch[rec.pos]].key

\* webhookData.message of that job, Null when the payload has none
JobMessage(rec) == queue[rec.batch[rec.pos]].message

\* webhookData.createdTime of that job
JobCreatedTime(rec) == queue[rec.batch[rec.pos]].createdTime

ClearCall(rec) ==
  [rec EXCEPT !.to = Null, !.err = Null, !.msgId = Null, !.details = Null,
              !.ret = Null, !.rd = NotRead]

\* processPost returned: the for loop takes the next job of the batch, and
\* after the last one the handler resolves
Return(rec) ==
  IF rec.pos < Len(rec.batch)
    THEN [ClearCall(rec) EXCEPT !.pc = "load", !.pos = rec.pos + 1, !.post = Null,
                                !.fb = Null, !.send = Null, !.result = Null,
                                !.fetchError = Null, !.status = Null]
    ELSE [ClearCall(rec) EXCEPT !.pc = "complete", !.post = Null,
                                !.fb = Null, !.send = Null, !.result = Null,
                                !.fetchError = Null, !.status = Null]

\* a handler that swallows what processPost threw
Throw_Swallowed(rec) == Return(rec)

\* processPost threw: the handler rethrows and the batch is over
Throw(rec) ==
  [ClearCall(rec) EXCEPT !.pc = "fail", !.post = Null,
                         !.fb = Null, !.send = Null, !.result = Null,
                         !.fetchError = Null, !.status = Null]

\* await transitionPost(fbPostId, toStatus, updates, eventDetails)
BeginTransition(rec, toStatus, lastError, discordMsgId, details, ret) ==
  [rec EXCEPT !.pc = "tp_read", !.to = toStatus, !.err = lastError,
              !.msgId = discordMsgId, !.details = details, !.ret = ret,
              !.rd = NotRead, !.result = Null]

\* await markForRetry(fbPostId, error)
BeginMark(rec, error, ret) ==
  [rec EXCEPT !.pc = "mfr_read", !.to = Null, !.err = error, !.msgId = Null,
              !.details = Null, !.ret = ret, !.rd = NotRead, !.result = Null]

\* the statement after an awaited transitionPost or markForRetry; processPost
\* does not look at what the call returned, a direct caller has the result
\* next to what it asked for
After(rec, result) ==
  LET r == [ClearCall(rec) EXCEPT !.result = result] IN
    CASE rec.ret = "fetch"     -> [r EXCEPT !.pc = "fetch"]
      [] rec.ret = "t_sending" -> BeginTransition(r, "sending", Null, Null, Null, "send")
      [] rec.ret = "send"      -> [r EXCEPT !.pc = "send"]
      [] rec.ret = "return"    -> Return(r)
      [] rec.ret = "throw"     -> Throw(r)
      [] OTHER                 -> [r EXCEPT !.pc = "idle", !.post = Null,
                                            !.to = rec.to, !.rd = rec.rd]

(***************************************************************************)
(* Post store: transitionPost and markForRetry                             *)
(***************************************************************************)
\* a validation that lets every target through
ValidNext_Any(fromStatus, toStatus) == toStatus \in PostStatus

\* validNext.includes(toStatus)
ValidNext(fromStatus, toStatus) == toStatus \in VALID_TRANSITIONS[fromStatus]

\* transitionPost: findUnique and the two early returns of null
TransitionRead(w) ==
  /\ wk[w].pc = "tp_read"
  /\ LET row == posts[wk[w].post] IN
       wk' = [wk EXCEPT ![w] =
                IF row = NoRow \/ ~ValidNext(row.status, wk[w].to)
                  THEN After([@ EXCEPT !.rd = row], "null")
                  ELSE [@ EXCEPT !.pc = "tp_write", !.rd = row]]
  /\ UNCHANGED <<config, util, startup, posts, events, deliveryLogs, queue, req,
                 fetchCalls, sinkCalls, raised, expired, calls>>

\* data: { status: toStatus, ...updates }: an undefined update leaves the field
TransitionData(row, toStatus, lastError, discordMsgId) ==
  [row EXCEPT !.status = toStatus,
              !.lastError = IF lastError = Null THEN @ ELSE lastError,
              !.discordMsgId = IF discordMsgId = Null THEN @ ELSE discordMsgId]

\* transitionPost: prisma.post.update of the row with the nested event create
TransitionWrite(w) ==
  /\ wk[w].pc = "tp_write"
  /\ LET p == wk[w].post IN
       /\ posts' = [posts EXCEPT
                      ![p] = TransitionData(@, wk[w].to, wk[w].err, wk[w].msgId)]
       /\ events' = [events EXCEPT
                       ![p] = Append(@, Event(StatusEvent(wk[w].to), wk[w].details))]
  /\ wk' = [wk EXCEPT ![w] = After(@, "row")]
  /\ UNCHANGED <<config, util, startup, deliveryLogs, queue, req,
                 fetchCalls, sinkCalls, raised, expired, calls>>

\* markForRetry: findUnique, null for no row, the row itself when delivered
MarkRead(w) ==
  /\ wk[w].pc = "mfr_read"
  /\ LET row == posts[wk[w].post] IN
       wk' = [wk EXCEPT ![w] =
                IF row = NoRow THEN After(@, "null")
                ELSE IF row.status = "delivered" THEN After(@, "row")
                ELSE [@ EXCEPT !.pc = "mfr_write", !.rd = row]]
  /\ UNCHANGED <<config, util, startup, posts, events, deliveryLogs, queue, req,
                 fetchCalls, sinkCalls, raised, expired, calls>>

\* an update that leaves retryCount as it is
MarkData_SameCount(row, error, newRetryCount) ==
  [row EXCEPT !.status = "received", !.lastError = error]

\* data: { status: received, lastError: error, retryCount: newRetryCount }
MarkData(row, error, newRetryCount) ==
  [row EXCEPT !.status = "received", !.lastError = error,
              !.retryCount = newRetryCount]

\* markForRetry: prisma.post.update with the marked_for_retry event;
\* newRetryCount comes from the row as it was read
MarkWrite(w) ==
  /\ wk[w].pc = "mfr_write"
  /\ LET p == wk[w].post IN
       /\ posts' = [posts EXCEPT
                      ![p] = MarkData(@, wk[w].err, wk[w].rd.retryCount + 1)]
       /\ events' = [events EXCEPT
                       ![p] = Append(@, Event("marked_for_retry", wk[w].err))]
  /\ wk' = [wk EXCEPT ![w] = After(@, "row")]
  /\ UNCHANGED <<config, util, startup, deliveryLogs, queue, req,
                 fetchCalls, sinkCalls, raised, expired, calls>>

(***************************************************************************)
(* Upstream fetch and sink: what the two HTTP calls can answer              *)
(***************************************************************************)
\* age of created_time against MAX_POST_AGE_MINUTES, or no created_time
Times == {"fresh", "old", "absent"}

\* what the Graph API answers to GET /<post_id>
GraphResponses ==
  [kind : {"ok"}, from : {PAGE_ID, OTHER_ID}, message : MsgKinds, created : Times]
    \cup {[kind |-> "error", retryable |-> b] : b \in BOOLEAN}

\* fetchPost: the FetchPostResult for a response
fetchPost(resp) ==
  IF resp.kind = "error"
    THEN [success |-> FALSE, post |-> Null, retryable |-> resp.retryable,
          error |-> IF resp.retryable THEN ErrFetchRetryable ELSE ErrFetchFatal]
  ELSE IF resp.from # PAGE_ID
    THEN [success |-> FALSE, post |-> Null, retryable |-> FALSE,
          error |-> ErrNotFromPage]
  ELSE [success |-> TRUE, retryable |-> FALSE, error |-> Null,
        post |-> [from |-> resp.from, message |-> resp.message,
                  created |-> resp.created]]

\* the post processPost builds from webhookData when the fetch failed
FallbackPost(message, created) ==
  [from |-> PAGE_ID, message |-> message, created |-> created]

\* how old a created_time that is present can be when the worker looks at it
Ages == {"fresh", "old"}

\* created_time of the fallback post: undefined without webhookData.createdTime
WebhookAge(createdTime, age) ==
  IF createdTime = "absent" THEN "absent" ELSE age

\* sendToDiscord: the SendResult values it returns
SendResults ==
  {[success |-> TRUE, messageId |-> m, error |-> Null,
    retryable |-> FALSE, ambiguous |-> FALSE] : m \in {"msg-1", Null}}
  \cup
  {[success |-> FALSE, messageId |-> Null, error |-> ErrRateLimited,
    retryable |-> TRUE, ambiguous |-> FALSE],
   [success |-> FALSE, messageId |-> Null, error |-> ErrSinkFatal,
    retryable |-> FALSE, ambiguous |-> FALSE],
   [success |-> FALSE, messageId |-> Null, error |-> ErrTimedOut,
    retryable |-> FALSE, ambiguous |-> TRUE]}

\* isPostTooOld of process-post.ts
isPostTooOld(created) ==
  IF config.MAX_POST_AGE_MINUTES = 0 THEN FALSE
  ELSE IF created = "absent" THEN TRUE
  ELSE created = "old"

\* getChannelRoutes: the tags of the parsed CHANNEL_ROUTES, none when unset
getChannelRoutes == config.CHANNEL_ROUTES

\* hasTag: the message contains the trigger tag
hasTag(message) == message # Null /\ TRIGGER_TAG \in MsgTags(message)

\* a filter that knows the trigger tag only
hasAnyTrackedTag_TriggerOnly(message) == hasTag(message)

\* hasAnyTrackedTag: the trigger tag, or the tag of a channel route
hasAnyTrackedTag(message) ==
  /\ message # Null
  /\ \/ hasTag(message)
     \/ \E tag \in getChannelRoutes : tag \in MsgTags(message)

(***************************************************************************)
(* Worker: processPost                                                     *)
(***************************************************************************)
\* a check that skips delivered rows only
InTerminalState_Delivered(row) == row.status = "delivered"

\* post.status === PostStatus.delivered || post.status === PostStatus.ignored
InTerminalState(row) == row.status \in {"delivered", "ignored"}

\* a processPost without the kill switch
Load_NoKillSwitch(w) ==
  /\ wk[w].pc = "load"
  /\ LET p == JobPost(wk[w])
         row == posts[p] IN
       wk' = [wk EXCEPT ![w] =
                IF row = NoRow THEN Return(@)
                ELSE IF InTerminalState(row) THEN Return(@)
                ELSE BeginTransition([@ EXCEPT !.post = p, !.status = row.status],
                                     "fetching", Null, Null, Null, "fetch")]
  /\ UNCHANGED <<config, util, startup, posts, events, deliveryLogs, queue, req,
                 fetchCalls, sinkCalls, raised, expired, calls>>

\* the row is read; absent, terminal and kill switch return at once, else
\* processPost calls transitionPost(fetching)
Load(w) ==
  /\ wk[w].pc = "load"
  /\ LET p == JobPost(wk[w])
         row == posts[p] IN
       wk' = [wk EXCEPT ![w] =
                IF row = NoRow THEN Return(@)
                ELSE IF InTerminalState(row) THEN Return(@)
                ELSE IF ~config.ALERTS_ENABLED THEN Return(@)
                ELSE BeginTransition([@ EXCEPT !.post = p, !.status = row.status],
                                     "fetching", Null, Null, Null, "fetch")]
  /\ UNCHANGED <<config, util, startup, posts, events, deliveryLogs, queue, req,
                 fetchCalls, sinkCalls, raised, expired, calls>>

\* what processPost does with the fetch result, up to its next await
AfterFetch(rec, res, message, created) ==
  LET r == [rec EXCEPT !.fetchError = res.error] IN
    IF res.success THEN [r EXCEPT !.pc = "update", !.fb = res.post]
    ELSE IF message # Null
      THEN [r EXCEPT !.pc = "update", !.fb = FallbackPost(message, created)]
    ELSE IF res.retryable THEN BeginMark(r, res.error, "throw")
    ELSE BeginTransition(r, "failed", res.error, Null, Null, "return")

\* await fetchPost(fbPostId), the Graph API answering with one of responses
FetchFrom(w, responses) ==
  /\ wk[w].pc = "fetch"
  /\ \E resp \in responses, age \in Ages :
       LET res == fetchPost(resp) IN
         /\ res.retryable => raised < MaxRaise
         /\ raised' = IF res.retryable THEN raised + 1 ELSE raised
         /\ wk' = [wk EXCEPT ![w] =
                     AfterFetch(@, res, JobMessage(@),
                                WebhookAge(JobCreatedTime(@), age))]
  /\ fetchCalls' = [fetchCalls EXCEPT ![wk[w].post] = @ + 1]
  /\ UNCHANGED <<config, util, startup, posts, events, deliveryLogs, queue, req,
                 sinkCalls, expired, calls>>

\* await fetchPost(fbPostId)
Fetch(w) == FetchFrom(w, GraphResponses)

\* the age gate and the tag filter, up to the await they lead to
AfterUpdate(rec) ==
  IF isPostTooOld(rec.fb.created)
    THEN BeginTransition([rec EXCEPT !.fb = Null],
                         "ignored", Null, Null, "Post too old", "return")
  ELSE IF ~hasAnyTrackedTag(rec.fb.message)
    THEN BeginTransition([rec EXCEPT !.fb = Null],
                         "ignored", Null, Null, "No tracked hashtag", "return")
  ELSE BeginTransition([rec EXCEPT !.fb = Null],
                       "eligible", Null, Null, Null, "t_sending")

\* await prisma.post.update: the data-only write of the fetched fields
Update(w) ==
  /\ wk[w].pc = "update"
  /\ posts' = [posts EXCEPT ![wk[w].post] =
                 [@ EXCEPT !.authorId = wk[w].fb.from, !.message = wk[w].fb.message]]
  /\ wk' = [wk EXCEPT ![w] = AfterUpdate(@)]
  /\ UNCHANGED <<config, util, startup, events, deliveryLogs, queue, req,
                 fetchCalls, sinkCalls, raised, expired, calls>>

\* await sendToDiscord(fbPost)
Send(w) ==
  /\ wk[w].pc = "send"
  /\ \E res \in SendResults :
       /\ res.retryable => raised < MaxRaise
       /\ raised' = IF res.retryable THEN raised + 1 ELSE raised
       /\ wk' = [wk EXCEPT ![w] = [@ EXCEPT !.pc = "log", !.send = res]]
  /\ sinkCalls' = [sinkCalls EXCEPT ![wk[w].post] = @ + 1]
  /\ UNCHANGED <<config, util, startup, posts, events, deliveryLogs, queue, req,
                 fetchCalls, expired, calls>>

\* a handler that takes every send result for a success
AfterLog_AlwaysDelivered(rec) ==
  BeginTransition([rec EXCEPT !.send = Null],
                  "delivered", Null, rec.send.messageId, Null, "return")

\* the four outcomes of the send, up to the await each leads to
AfterLog(rec) ==
  LET res == rec.send
      r == [rec EXCEPT !.send = Null] IN
    IF res.success
      THEN BeginTransition(r, "delivered", Null, res.messageId, Null, "return")
    ELSE IF res.ambiguous
      THEN BeginTransition(r, "needs_review", res.error, Null, Null, "return")
    ELSE IF res.retryable THEN BeginMark(r, res.error, "throw")
    ELSE BeginTransition(r, "failed", res.error, Null, Null, "return")

\* a handler that logs the successful attempts only
LogDelivery_OnlySuccess(w) ==
  /\ wk[w].pc = "log"
  /\ deliveryLogs' = [deliveryLogs EXCEPT
                        ![wk[w].post] = IF wk[w].send.success
                                          THEN Append(@, TRUE) ELSE @]
  /\ wk' = [wk EXCEPT ![w] = AfterLog(@)]
  /\ UNCHANGED <<config, util, startup, posts, events, queue, req,
                 fetchCalls, sinkCalls, raised, expired, calls>>

\* await logDelivery(fbPostId, sendResult.success, ...)
LogDelivery(w) ==
  /\ wk[w].pc = "log"
  /\ deliveryLogs' = [deliveryLogs EXCEPT
                        ![wk[w].post] = Append(@, wk[w].send.success)]
  /\ wk' = [wk EXCEPT ![w] = AfterLog(@)]
  /\ UNCHANGED <<config, util, startup, posts, events, queue, req,
                 fetchCalls, sinkCalls, raised, expired, calls>>

(***************************************************************************)
(* Queue: boss.work with batchSize 5, completion, failure and expiry       *)
(***************************************************************************)
RECURSIVE FirstN(_, _, _)
\* the first n indices of q, in order, that satisfy being available
FirstN(q, from, n) ==
  IF n = 0 \/ from > Len(q) THEN <<>>
  ELSE IF q[from].state \in {"created", "retry"}
    THEN <<from>> \o FirstN(q, from + 1, n - 1)
    ELSE FirstN(q, from + 1, n)

Range(seq) == {seq[i] : i \in 1..Len(seq)}

\* a failed or expired job is retried until its retry limit is used up
FailJob(job) ==
  IF job.retrycount < retryLimit
    THEN [job EXCEPT !.state = "retry", !.retrycount = @ + 1]
    ELSE [job EXCEPT !.state = "failed"]

\* the worker fetches up to batchSize available jobs and calls the handler;
\* workers are interchangeable, so of two idle ones the first polls
Claim(w) ==
  /\ wk[w].pc = "idle"
  /\ \A w2 \in Workers : w2 < w => wk[w2].pc # "idle"
  /\ LET batch == FirstN(queue, 1, batchSize) IN
       /\ batch # <<>>
       /\ queue' = [i \in 1..Len(queue) |->
                      IF i \in Range(batch)
                        THEN [queue[i] EXCEPT !.state = "active"] ELSE queue[i]]
       /\ wk' = [wk EXCEPT ![w] = [IdleWorker EXCEPT !.pc = "load",
                                                    !.batch = batch, !.pos = 1]]
  /\ UNCHANGED <<config, util, startup, posts, events, deliveryLogs, req,
                 fetchCalls, sinkCalls, raised, expired, calls>>

\* the handler resolved: the active jobs of the batch are completed
Complete(w) ==
  /\ wk[w].pc = "complete"
  /\ queue' = [i \in 1..Len(queue) |->
                 IF i \in Range(wk[w].batch) /\ queue[i].state = "active"
                   THEN [queue[i] EXCEPT !.state = "completed"] ELSE queue[i]]
  /\ wk' = [wk EXCEPT ![w] = IdleWorker]
  /\ UNCHANGED <<config, util, startup, posts, events, deliveryLogs, req,
                 fetchCalls, sinkCalls, raised, expired, calls>>

\* the handler threw: every active job of the batch is failed, so retried
Fail(w) ==
  /\ wk[w].pc = "fail"
  /\ queue' = [i \in 1..Len(queue) |->
                 IF i \in Range(wk[w].batch) /\ queue[i].state = "active"
                   THEN FailJob(queue[i]) ELSE queue[i]]
  /\ wk' = [wk EXCEPT ![w] = IdleWorker]
  /\ UNCHANGED <<config, util, startup, posts, events, deliveryLogs, req,
                 fetchCalls, sinkCalls, raised, expired, calls>>

\* at-least-once delivery: the queue expires an active job whose handler is
\* still running and hands it out again
Expire(i) ==
  /\ i \in 1..Len(queue)
  /\ queue[i].state = "active"
  /\ expired < MaxExpire
  /\ expired' = expired + 1
  /\ queue' = [queue EXCEPT ![i] = FailJob(@)]
  /\ UNCHANGED <<config, util, startup, posts, events, deliveryLogs, req, wk,
                 fetchCalls, sinkCalls, raised, calls>>

(***************************************************************************)
(* The pipeline: ingress, queue and one worker                             *)
(***************************************************************************)
\* a webhook delivery with one or two new posts, then replays of one post
WebhookBatch(r) ==
  /\ \A r2 \in Reqs : req[r2].pc \in {"idle", "done"}
  /\ Webhook(r, IF r = 1 THEN Payloads ELSE SinglePayloads)

\* what the workers ws do
WorkerNext(ws) ==
  \/ \E w \in ws : Claim(w)
  \/ \E w \in ws : Load(w)
  \/ \E w \in ws : TransitionRead(w)
  \/ \E w \in ws : TransitionWrite(w)
  \/ \E w \in ws : MarkRead(w)
  \/ \E w \in ws : MarkWrite(w)
  \/ \E w \in ws : Fetch(w)
  \/ \E w \in ws : Update(w)
  \/ \E w \in ws : Send(w)
  \/ \E w \in ws : LogDelivery(w)
  \/ \E w \in ws : Complete(w)
  \/ \E w \in ws : Fail(w)

Next ==
  \/ \E r \in Reqs : WebhookBatch(r)
  \/ \E r \in Reqs : GocFind(r)
  \/ \E r \in Reqs : GocCreate(r)
  \/ \E r \in Reqs : BossSend(r)
  \/ WorkerNext({1})

Spec == Init /\ [][Next]_vars

(***************************************************************************)
(* One post, replayed deliveries and a job handed out again: two handlers, *)
(* or two workers, on the same row                                         *)
(***************************************************************************)
\* one delivery of the post
WebhookOnce(r) ==
  /\ r = 1
  /\ Webhook(r, SinglePayloads)

\* one delivery of the post, its payload without a message
WebhookPlain(r) ==
  /\ r = 1
  /\ Webhook(r, {<<PlainData("p1")>>})

\* the defaults of the environment schema: alerts on, a 30 minute horizon
DefaultConfig ==
  [ALERTS_ENABLED |-> TRUE, MAX_POST_AGE_MINUTES |-> 30, CHANNEL_ROUTES |-> {}]

RaceInit ==
  /\ config = DefaultConfig
  /\ InitStore

RaceNext ==
  \/ \E r \in Reqs : WebhookPlain(r)
  \/ \E r \in Reqs : GocFind(r)
  \/ \E r \in Reqs : GocCreate(r)
  \/ \E r \in Reqs : BossSend(r)
  \/ \E i \in 1..MaxReq : Expire(i)
  \/ WorkerNext(Workers)

SpecRace == RaceInit /\ [][RaceNext]_vars

(***************************************************************************)
(* Ingress alone: concurrent deliveries of the same post                   *)
(***************************************************************************)
WebhookAnyTime(r) == Webhook(r, SinglePayloads)

IngressNext ==
  \/ \E r \in Reqs : WebhookAnyTime(r)
  \/ \E r \in Reqs : GocFind(r)
  \/ \E r \in Reqs : GocCreate(r)
  \/ \E r \in Reqs : GocReread(r)
  \/ \E r \in Reqs : BossSend(r)

SpecIngress == Init /\ [][IngressNext]_vars

(***************************************************************************)
(* The store operations called directly, as the tests of the store call    *)
(* them: any target status, on a post that may have no row yet             *)
(***************************************************************************)
\* await transitionPost("p1", toStatus)
CallTransition(w, toStatus) ==
  /\ wk[w].pc = "idle"
  /\ calls < MaxCalls
  /\ calls' = calls + 1
  /\ wk' = [wk EXCEPT ![w] =
              BeginTransition([IdleWorker EXCEPT !.post = "p1"],
                              toStatus, Null, Null, Null, "client")]
  /\ UNCHANGED <<config, util, startup, posts, events, deliveryLogs, queue, req,
                 fetchCalls, sinkCalls, raised, expired>>

\* await markForRetry("p1", "Network error")
CallMark(w) ==
  /\ wk[w].pc = "idle"
  /\ calls < MaxCalls
  /\ calls' = calls + 1
  /\ wk' = [wk EXCEPT ![w] =
              BeginMark([IdleWorker EXCEPT !.post = "p1"], "Network error", "client")]
  /\ UNCHANGED <<config, util, startup, posts, events, deliveryLogs, queue, req,
                 fetchCalls, sinkCalls, raised, expired>>

OpsNext ==
  \/ \E r \in Reqs : WebhookOnce(r)
  \/ \E r \in Reqs : GocFind(r)
  \/ \E r \in Reqs : GocCreate(r)
  \/ \E r \in Reqs : BossSend(r)
  \/ \E w \in Workers, toStatus \in PostStatus : CallTransition(w, toStatus)
  \/ \E w \in Workers : CallMark(w)
  \/ \E w \in Workers : TransitionRead(w)
  \/ \E w \in Workers : TransitionWrite(w)
  \/ \E w \in Workers : MarkRead(w)
  \/ \E w \in Workers : MarkWrite(w)

SpecOps == RaceInit /\ [][OpsNext]_vars

(***************************************************************************)
(* getOrCreatePost called directly, by callers that run concurrently       *)
(***************************************************************************)
\* a caller that is not in a call starts await getOrCreatePost(fbPostId)
CallGetOrCreate(r, fbPostId) ==
  /\ req[r].pc \in {"idle", "returned", "threw"}
  /\ calls < MaxCalls
  /\ calls' = calls + 1
  /\ req' = [req EXCEPT ![r] =
               [IdleReq EXCEPT !.pc = "find", !.i = 1, !.ret = "client",
                               !.items = <<PlainData(fbPostId)>>]]
  /\ UNCHANGED <<config, util, startup, posts, events, deliveryLogs, queue, wk,
                 fetchCalls, sinkCalls, raised, expired>>

GocNext ==
  \/ \E r \in Reqs, fbPostId \in PostIds : CallGetOrCreate(r, fbPostId)
  \/ \E r \in Reqs : GocFind(r)
  \/ \E r \in Reqs : GocCreate(r)
  \/ \E r \in Reqs : GocReread(r)

SpecGoc == RaceInit /\ [][GocNext]_vars

(***************************************************************************)
(* The HTTP request: body parsing, signature verification, payload shape   *)
(***************************************************************************)
\* characters of a header value: two hex digits, an upper-case one, a
\* character that is no hex digit
HexChars == {"a", "b", "A", "z"}

\* the value of a hex digit as Buffer.from(s, 'hex') reads it, -1 for none
HexVal(c) ==
  CASE c = "a" -> 10
    [] c = "A" -> 10
    [] c = "b" -> 11
    [] OTHER   -> 0 - 1

RECURSIVE HexDecode(_)
\* Buffer.from(s, 'hex'): one byte per pair of hex digits, in either case,
\* up to the first pair that is not one; what follows is dropped
HexDecode(s) ==
  IF Len(s) < 2 THEN <<>>
  ELSE IF HexVal(s[1]) < 0 \/ HexVal(s[2]) < 0 THEN <<>>
  ELSE <<16 * HexVal(s[1]) + HexVal(s[2])>> \o HexDecode(SubSeq(s, 3, Len(s)))

\* page objects with one entry and one change: a new post, a change of
\* another field, another verb, a change without post_id, a post created
\* long ago
PageBodies == {"feed", "other_field", "other_verb", "no_post_id", "old_post"}

\* raw request bodies: bytes that are not JSON, JSON for another object,
\* a page object without entry, the page objects with one change
RawBodies == {"not_json", "not_page", "no_entry"} \cup PageBodies

\* entry[0].changes[0] of a page body
Change(rawBody) ==
  LET add == [field |-> "feed", verb |-> "add", post_id |-> "p1",
              created_time |-> "absent"] IN
    CASE rawBody = "other_field" -> [add EXCEPT !.field = "mention"]
      [] rawBody = "other_verb"  -> [add EXCEPT !.verb = "edited"]
      [] rawBody = "no_post_id"  -> [add EXCEPT !.post_id = Null]
      [] rawBody = "old_post"    -> [add EXCEPT !.created_time = "old"]
      [] OTHER                   -> add

\* isPostTooOld of the webhook route: a change without created_time passes
isWebhookPostTooOld(createdTime) ==
  IF config.MAX_POST_AGE_MINUTES = 0 THEN FALSE
  ELSE IF createdTime = "absent" THEN FALSE
  ELSE createdTime = "old"

\* a collection that takes feed changes of every verb
CollectPosts_AnyVerb(change) ==
  IF change.field # "feed" THEN <<>>
  ELSE IF change.post_id = Null THEN <<>>
  ELSE IF isWebhookPostTooOld(change.created_time) THEN <<>>
  ELSE <<[postId |-> change.post_id, message |-> Null,
          createdTime |-> IF change.created_time = "absent"
                            THEN "absent" ELSE "present"]>>

\* the loop over entry[].changes[]: what it pushes to posts for one change
CollectPosts(change) ==
  IF change.field # "feed" THEN <<>>
  ELSE IF change.verb # "add" THEN <<>>
  ELSE IF change.post_id = Null THEN <<>>
  ELSE IF isWebhookPostTooOld(change.created_time) THEN <<>>
  ELSE <<[postId |-> change.post_id, message |-> Null,
          createdTime |-> IF change.created_time = "absent"
                            THEN "absent" ELSE "present"]>>

\* hmac.digest('hex') of a raw body under META_APP_SECRET
hmacHex(rawBody) ==
  IF rawBody \in {"feed", "not_json"} THEN <<"a", "b">> ELSE <<"b", "a">>

\* the strings of at most n characters
HexStrings(n) == UNION {[1..k -> HexChars] : k \in 0..n}

\* values of the x-hub-signature-256 header: none, or a prefix and characters
Headers ==
  {NoHeader} \cup
  {<<prefix>> \o h : prefix \in {"sha256=", "sha1="}, h \in HexStrings(MaxSigLen)}

\* verifySignature of signature.ts
verifySignature(rawBody, signature) ==
  IF signature = NoHeader THEN FALSE
  ELSE IF signature[1] # "sha256=" THEN FALSE
  ELSE LET providedBuffer == HexDecode(Tail(signature))
           expectedBuffer == HexDecode(hmacHex(rawBody)) IN
         IF Len(providedBuffer) # Len(expectedBuffer) THEN FALSE
         ELSE providedBuffer = expectedBuffer

\* a request that is answered at once
Answer(rawBody, signature, status) ==
  [IdleReq EXCEPT !.pc = "done", !.reply = status,
                  !.raw = rawBody, !.sig = signature]

\* POST /meta/webhook with any body and any signature header: the content
\* type parser, then the handler up to its enqueue loop
HandlePost(r) ==
  /\ req[r].pc = "idle"
  /\ \E rawBody \in RawBodies, signature \in Headers :
       req' = [req EXCEPT ![r] =
                 IF rawBody = "not_json" THEN Answer(rawBody, signature, 500)
                 ELSE IF ~verifySignature(rawBody, signature)
                   THEN Answer(rawBody, signature, 403)
                 ELSE IF rawBody = "not_page" THEN Answer(rawBody, signature, 200)
                 ELSE IF rawBody = "no_entry" THEN Answer(rawBody, signature, 500)
                 ELSE IF CollectPosts(Change(rawBody)) = <<>>
                   THEN Answer(rawBody, signature, 200)
                 ELSE [IdleReq EXCEPT !.pc = "find", !.i = 1,
                                      !.items = CollectPosts(Change(rawBody)),
                                      !.raw = rawBody, !.sig = signature]]
  /\ UNCHANGED <<config, util, startup, posts, events, deliveryLogs, queue, wk,
                 fetchCalls, sinkCalls, raised, expired, calls>>

\* one request
HandlePostOnce(r) ==
  /\ r = 1
  /\ HandlePost(r)

RequestNext ==
  \/ \E r \in Reqs : HandlePostOnce(r)
  \/ \E r \in Reqs : GocFind(r)
  \/ \E r \in Reqs : GocCreate(r)
  \/ \E r \in Reqs : BossSend(r)

SpecRequest == RaceInit /\ [][RequestNext]_vars

(***************************************************************************)
(* GET /webhook: the verification handshake                                *)
(***************************************************************************)
\* config.META_VERIFY_TOKEN
META_VERIFY_TOKEN == "verify-token"

\* query strings: each parameter missing, as configured or expected, or other;
\* a challenge can be given empty
Queries ==
  [mode : {Null, "subscribe", "unsubscribe"},
   token : {Null, META_VERIFY_TOKEN, "wrong-token"},
   challenge : {Null, "", "c1", "c2"}]

\* a handshake that does not look at the token
VerifyReply_AnyToken(query) ==
  IF query.mode # "subscribe" THEN [status |-> 403, text |-> "Invalid mode"]
  ELSE IF query.challenge \in {Null, ""}
    THEN [status |-> 400, text |-> "Missing challenge"]
  ELSE [status |-> 200, text |-> query.challenge]

\* the three checks of the GET handler, in its order, and the challenge sent
\* back as the body
VerifyReply(query) ==
  IF query.mode # "subscribe" THEN [status |-> 403, text |-> "Invalid mode"]
  ELSE IF query.token # META_VERIFY_TOKEN
    THEN [status |-> 403, text |-> "Invalid verify token"]
  ELSE IF query.challenge \in {Null, ""}
    THEN [status |-> 400, text |-> "Missing challenge"]
  ELSE [status |-> 200, text |-> query.challenge]

\* GET /meta/webhook with any query; requests take the slots in order
HandleGet(r) ==
  /\ req[r].pc = "idle"
  /\ \A r2 \in Reqs : r2 < r => req[r2].pc # "idle"
  /\ \E query \in Queries :
       req' = [req EXCEPT ![r] =
                 [IdleReq EXCEPT !.pc = "done", !.query = query,
                                 !.reply = VerifyReply(query).status,
                                 !.text = VerifyReply(query).text]]
  /\ UNCHANGED <<config, util, startup, posts, events, deliveryLogs, queue, wk,
                 fetchCalls, sinkCalls, raised, expired, calls>>

\* handshakes, before and after the delivery of a post
VerifyNext ==
  \/ \E r \in Reqs : HandleGet(r)
  \/ \E r \in Reqs : WebhookAnyTime(r)
  \/ \E r \in Reqs : GocFind(r)
  \/ \E r \in Reqs : GocCreate(r)
  \/ \E r \in Reqs : BossSend(r)

SpecVerify == RaceInit /\ [][VerifyNext]_vars

(***************************************************************************)
(* Worker startup: main() from its first line, next to the ingress         *)
(***************************************************************************)
\* the startup frame: the worker's position and its probes only
StartFrame ==
  UNCHANGED <<config, util, posts, events, deliveryLogs, queue, req,
              fetchCalls, sinkCalls, raised, expired, calls>>

\* fbOk = await verifyPageAccess(); if (!fbOk) process.exit(1)
VerifyPageAccess(w) ==
  /\ wk[w].pc = "verifyPageAccess"
  /\ \E fbOk \in BOOLEAN :
       /\ startup' = [startup EXCEPT ![w].fbOk = IF fbOk THEN "true" ELSE "false"]
       /\ wk' = [wk EXCEPT ![w].pc = IF fbOk THEN "testWebhook" ELSE "exit(1)"]
  /\ StartFrame

\* a main() that goes on whatever testWebhook answers
TestWebhook_Unchecked(w) ==
  /\ wk[w].pc = "testWebhook"
  /\ \E discordOk \in BOOLEAN :
       /\ startup' = [startup EXCEPT
                        ![w].discordOk = IF discordOk THEN "true" ELSE "false"]
       /\ wk' = [wk EXCEPT ![w].pc = "bossStart"]
  /\ StartFrame

\* discordOk = await testWebhook(); if (!discordOk) process.exit(1)
TestWebhook(w) ==
  /\ wk[w].pc = "testWebhook"
  /\ \E discordOk \in BOOLEAN :
       /\ startup' = [startup EXCEPT
                        ![w].discordOk = IF discordOk THEN "true" ELSE "false"]
       /\ wk' = [wk EXCEPT ![w].pc = IF discordOk THEN "bossStart" ELSE "exit(1)"]
  /\ StartFrame

\* await boss.start(): a rejection ends main() in its catch, process.exit(1)
BossStart(w) ==
  /\ wk[w].pc = "bossStart"
  /\ \E ok \in BOOLEAN :
       wk' = [wk EXCEPT ![w].pc = IF ok THEN "bossWork" ELSE "exit(1)"]
  /\ UNCHANGED startup
  /\ StartFrame

\* await boss.work(queue, {batchSize}, handler): the handler is registered
\* and the worker polls
BossWork(w) ==
  /\ wk[w].pc = "bossWork"
  /\ wk' = [wk EXCEPT ![w].pc = "idle"]
  /\ UNCHANGED startup
  /\ StartFrame

\* one worker process is started while the ingress already takes deliveries
StartInit ==
  /\ config = DefaultConfig
  /\ posts = [p \in PostIds |-> NoRow]
  /\ events = [p \in PostIds |-> <<>>]
  /\ deliveryLogs = [p \in PostIds |-> <<>>]
  /\ queue = <<>>
  /\ req = [r \in Reqs |-> IdleReq]
  /\ wk = [w \in Workers |->
             IF w = 1 THEN [IdleWorker EXCEPT !.pc = "verifyPageAccess"]
                      ELSE IdleWorker]
  /\ fetchCalls = [p \in PostIds |-> 0]
  /\ sinkCalls = [p \in PostIds |-> 0]
  /\ raised = 0
  /\ expired = 0
  /\ calls = 0
  /\ util = NoCall
  /\ startup = [w \in Workers |-> IF w = 1 THEN NotStarted ELSE Started]

StartNext ==
  \/ \E r \in Reqs : WebhookPlain(r)
  \/ \E r \in Reqs : GocFind(r)
  \/ \E r \in Reqs : GocCreate(r)
  \/ \E r \in Reqs : BossSend(r)
  \/ VerifyPageAccess(1)
  \/ TestWebhook(1)
  \/ BossStart(1)
  \/ BossWork(1)
  \/ WorkerNext({1})

SpecStart == StartInit /\ [][StartNext]_vars

(***************************************************************************)
(* Two posts and their jobs until the queue is done with them: the worker  *)
(* is scheduled fairly and every execution may raise                       *)
(***************************************************************************)
\* the ingress has answered one delivery with two new posts, their payloads
\* without a message: both rows are in received and both jobs are enqueued.
\* Alerts are on; the count of retryable outcomes starts with room for one
\* in every execution the queue grants a job: the first and retryLimit more
LiveInit ==
  /\ config = DefaultConfig
  /\ posts = [p \in PostIds |-> NewRow]
  /\ events = [p \in PostIds |-> <<Event("webhook_received", Null)>>]
  /\ deliveryLogs = [p \in PostIds |-> <<>>]
  /\ queue = Enqueue(Enqueue(<<>>, PlainData("p1")), PlainData("p2"))
  /\ req = [r \in Reqs |-> IdleReq]
  /\ wk = [w \in Workers |-> IdleWorker]
  /\ fetchCalls = [p \in PostIds |-> 0]
  /\ sinkCalls = [p \in PostIds |-> 0]
  /\ raised = MaxRaise - (retryLimit + 1)
  /\ expired = 0
  /\ calls = 0
  /\ util = NoCall
  /\ startup = [w \in Workers |-> Started]

\* the Graph API answers with the post (of the page, fresh, with the trigger
\* tag) or with an error
LiveResponses ==
  {resp \in GraphResponses :
     resp.kind = "ok" =>
       (resp.from = PAGE_ID /\ resp.message = "tagged" /\ resp.created = "fresh")}

\* what the worker does, the upstream answering as above
LiveWorker(w) ==
  \/ Claim(w)
  \/ Load(w)
  \/ TransitionRead(w)
  \/ TransitionWrite(w)
  \/ MarkRead(w)
  \/ MarkWrite(w)
  \/ FetchFrom(w, LiveResponses)
  \/ Update(w)
  \/ Send(w)
  \/ LogDelivery(w)
  \/ Complete(w)
  \/ Fail(w)

LiveNext == LiveWorker(1)

\* the worker polls the queue all the time and the event loop resumes every
\* awaited call: a step of the worker that stays possible is taken
SpecLive == LiveInit /\ [][LiveNext]_vars /\ WF_vars(LiveWorker(1))

(***************************************************************************)
(* Helper functions, each called on its own with any argument              *)
(***************************************************************************)
\* HTTP statuses of the sink's answer
SinkStatuses == {200, 204, 304, 400, 404, 429, 500, 503}

\* values of the Retry-After header: none, seconds, something else
RetryAfterValues == {Null, "0", "1", "2", "soon"}

\* what parseInt makes of no number
NaN == 0 - 1

\* parseInt(retryAfter, 10)
parseInt(str) ==
  CASE str = "0" -> 0
    [] str = "1" -> 1
    [] str = "2" -> 2
    [] OTHER     -> NaN

\* what the POST to the sink comes to: an answer (its status, its Retry-After
\* header, the id in its body, whether reading its body fails), the abort by
\* the 30 s timer, or another failure of the transport
SinkOutcomes ==
  [kind : {"response"}, status : SinkStatuses, retryAfter : RetryAfterValues,
   id : {Null, "msg-1"}, bodyFails : BOOLEAN]
    \cup {[kind |-> "abort"], [kind |-> "network"]}

\* a SendResult without retryAfterMs
SendResult(success, messageId, error, retryable, ambiguous) ==
  [success |-> success, messageId |-> messageId, error |-> error,
   retryable |-> retryable, ambiguous |-> ambiguous]

\* the result of the catch block of sendToDiscord
SinkCaught(name) ==
  SendResult(FALSE, Null,
             IF name = "AbortError" THEN ErrTimedOut ELSE "network error",
             name # "AbortError", name = "AbortError")

\* a classification that takes a 5xx answer for final
sendToDiscord_5xxFinal(outcome) ==
  IF outcome.kind = "abort" THEN SinkCaught("AbortError")
  ELSE IF outcome.kind = "network" THEN SinkCaught("Error")
  ELSE IF outcome.status = 429
    THEN [success |-> FALSE, messageId |-> Null, error |-> ErrRateLimited,
          retryable |-> TRUE, ambiguous |-> FALSE,
          retryAfterMs |-> IF outcome.retryAfter # Null
                             THEN parseInt(outcome.retryAfter) * 1000 ELSE 5000]
  ELSE IF outcome.status \notin 200..299
    THEN IF outcome.bodyFails THEN SinkCaught("Error")
         ELSE SendResult(FALSE, Null, "HTTP " \o ToString(outcome.status),
                         FALSE, FALSE)
  ELSE SendResult(TRUE, outcome.id, Null, FALSE, FALSE)

\* sendToDiscord: the SendResult for an outcome of the POST
sendToDiscord(outcome) ==
  IF outcome.kind = "abort" THEN SinkCaught("AbortError")
  ELSE IF outcome.kind = "network" THEN SinkCaught("Error")
  ELSE IF outcome.status = 429
    THEN [success |-> FALSE, messageId |-> Null, error |-> ErrRateLimited,
          retryable |-> TRUE, ambiguous |-> FALSE,
          retryAfterMs |-> IF outcome.retryAfter # Null
                             THEN parseInt(outcome.retryAfter) * 1000 ELSE 5000]
  ELSE IF outcome.status \notin 200..299
    THEN IF outcome.bodyFails THEN SinkCaught("Error")
         ELSE SendResult(FALSE, Null, "HTTP " \o ToString(outcome.status),
                         outcome.status >= 500, FALSE)
  ELSE SendResult(TRUE, outcome.id, Null, FALSE, FALSE)

\* a call of a helper function changes nothing else
UtilFrame ==
  UNCHANGED <<config, startup, posts, events, deliveryLogs, queue, req, wk,
              fetchCalls, sinkCalls, raised, expired, calls>>

CallSendToDiscord ==
  /\ util = NoCall
  /\ \E outcome \in SinkOutcomes :
       util' = [fn |-> "sendToDiscord", arg |-> outcome,
                out |-> sendToDiscord(outcome)]
  /\ UtilFrame

\* error codes of the Graph API that fetchPost retries
retryableCodes == {1, 2, 4, 17}

\* data.error.code of an answer without one
NoCode == 0

\* what GET /<post_id> comes to: an answer (its status, the error code of its
\* body, whether its body is JSON, its author), or a failure of the transport
FetchOutcomes ==
  [kind : {"response"}, status : {200, 400, 404, 500, 503},
   code : retryableCodes \cup {NoCode, 100, 190}, body : {"json", "text"},
   from : {PAGE_ID, OTHER_ID}]
    \cup {[kind |-> "network"]}

\* the branch of fetchPost an outcome takes: response.json() raises on a body
\* that is no JSON, before response.ok is looked at
GraphResponse(outcome) ==
  IF outcome.kind = "network" \/ outcome.body # "json"
    THEN [kind |-> "error", retryable |-> TRUE]
  ELSE IF outcome.status \notin 200..299
    THEN [kind |-> "error",
          retryable |-> \/ (outcome.code # NoCode /\ outcome.code \in retryableCodes)
                        \/ outcome.status >= 500]
  ELSE [kind |-> "ok", from |-> outcome.from, message |-> "tagged",
        created |-> "fresh"]

CallFetchPost ==
  /\ util = NoCall
  /\ \E outcome \in FetchOutcomes :
       util' = [fn |-> "fetchPost", arg |-> outcome,
                out |-> fetchPost(GraphResponse(outcome))]
  /\ UtilFrame

\* the characters of the texts: of hashtags, in both cases, and a space
Chars == {"#", "a", "A", "b", " "}

\* String.prototype.toLowerCase
toLowerCase(text) ==
  [i \in 1..Len(text) |-> IF text[i] = "A" THEN "a" ELSE text[i]]

\* the texts of at most n characters
Texts(n) == UNION {[1..k -> Chars] : k \in 0..n}

\* String.prototype.includes
includes(text, part) ==
  \E i \in 1..(Len(text) - Len(part) + 1) :
    SubSeq(text, i, i + Len(part) - 1) = part

\* the hashtags of the channel routes
RouteTags == {<<"#", "a">>, <<"#", "b">>}

DISCORD_WEBHOOK_URL == "url-default"

\* getChannelRoutes: the map of CHANNEL_ROUTES, its keys in lower case
RouteMaps == UNION {[tags -> {"url-a", "url-b"}] : tags \in SUBSET RouteTags}

\* the entries of CHANNEL_PRIORITY as written
PriorityEntries == RouteTags \cup {<<"#", "A">>}

PriorityLists == UNION {[1..k -> PriorityEntries] : k \in 0..MaxPriority}

\* getChannelPriority: the entries in lower case
getChannelPriority(entries) == [i \in 1..Len(entries) |-> toLowerCase(entries[i])]

\* no route found: what findRoutedChannel answers with null for
NoRoute == [tag |-> <<>>, webhookUrl |-> Null]

\* the loop of findRoutedChannel from entry i of the priority list
RECURSIVE FirstRouted(_, _, _, _)
FirstRouted(msgLower, routes, priority, i) ==
  IF i > Len(priority) THEN NoRoute
  ELSE IF includes(msgLower, priority[i]) /\ priority[i] \in DOMAIN routes
    THEN [tag |-> priority[i], webhookUrl |-> routes[priority[i]]]
  ELSE FirstRouted(msgLower, routes, priority, i + 1)

\* findRoutedChannel
findRoutedChannel(message, routes, entries) ==
  IF message = <<>> THEN NoRoute
  ELSE FirstRouted(toLowerCase(message), routes, getChannelPriority(entries), 1)

\* resolveWebhook: the URL the post is sent to
resolveWebhook(message, routes, entries) ==
  LET routed == findRoutedChannel(message, routes, entries) IN
    IF routed # NoRoute THEN routed.webhookUrl ELSE DISCORD_WEBHOOK_URL

CallResolveWebhook ==
  /\ util = NoCall
  /\ \E message \in Texts(MaxText), routes \in RouteMaps,
        entries \in PriorityLists :
       util' = [fn |-> "resolveWebhook",
                arg |-> [message |-> message, routes |-> routes,
                         priority |-> entries],
                out |-> resolveWebhook(message, routes, entries)]
  /\ UtilFrame

\* config.TRIGGER_TAG of the texts
TriggerText == <<"#", "a">>

\* the characters of \w and the hyphen: what may not follow the trigger tag
WordChars == {"a", "A", "b"}

\* the text has the trigger tag at position i, whatever the case
TagAt(text, i) ==
  /\ i + Len(TriggerText) - 1 <= Len(text)
  /\ toLowerCase(SubSeq(text, i, i + Len(TriggerText) - 1)) = TriggerText

\* hasTag of a text: new RegExp(escaped + '(?![\\w-])', 'i').test(message)
patternTest(text) ==
  \E i \in 1..Len(text) :
    /\ TagAt(text, i)
    /\ i + Len(TriggerText) <= Len(text) =>
         text[i + Len(TriggerText)] \notin WordChars

\* message.replace(tagPattern, ''): one pass from left to right
RECURSIVE RemoveTag(_)
RemoveTag(text) ==
  IF text = <<>> THEN <<>>
  ELSE IF TagAt(text, 1)
    THEN RemoveTag(SubSeq(text, Len(TriggerText) + 1, Len(text)))
  ELSE <<Head(text)>> \o RemoveTag(Tail(text))

\* .replace(/\s+/g, ' ')
RECURSIVE NormalizeSpaces(_)
NormalizeSpaces(text) ==
  IF Len(text) < 2 THEN text
  ELSE IF text[1] = " " /\ text[2] = " " THEN NormalizeSpaces(Tail(text))
  ELSE <<Head(text)>> \o NormalizeSpaces(Tail(text))

\* .trim()
RECURSIVE trim(_)
trim(text) ==
  IF text = <<>> THEN <<>>
  ELSE IF Head(text) = " " THEN trim(Tail(text))
  ELSE IF text[Len(text)] = " " THEN trim(SubSeq(text, 1, Len(text) - 1))
  ELSE text

\* stripTag
stripTag(message) == trim(NormalizeSpaces(RemoveTag(message)))

CallStripTag ==
  /\ util = NoCall
  /\ \E message \in Texts(MaxText) :
       util' = [fn |-> "stripTag", arg |-> message, out |-> stripTag(message)]
  /\ UtilFrame

\* .replace(/#\w+/g, ''): a hash sign and the word characters after it
RECURSIVE SkipWord(_)
SkipWord(text) ==
  IF text # <<>> /\ Head(text) \in WordChars THEN SkipWord(Tail(text)) ELSE text

RECURSIVE RemoveHashtags(_)
RemoveHashtags(text) ==
  IF text = <<>> THEN <<>>
  ELSE IF Head(text) = "#" /\ Len(text) >= 2 /\ text[2] \in WordChars
    THEN RemoveHashtags(SkipWord(Tail(text)))
  ELSE <<Head(text)>> \o RemoveHashtags(Tail(text))

\* stripAllHashtags
stripAllHashtags(message) == trim(NormalizeSpaces(RemoveHashtags(message)))

\* String.prototype.slice(0, end): a negative end counts from the end
slice(text, end) ==
  LET last == IF end >= 0 THEN end ELSE Len(text) + end IN
    SubSeq(text, 1, IF last > Len(text) THEN Len(text) ELSE last)

\* a truncation that leaves no room for the indicator
sanitizeForDiscord_NoRoom(message, maxLength) ==
  LET cleaned == stripAllHashtags(stripTag(message)) IN
    IF Len(cleaned) > maxLength
      THEN slice(cleaned, maxLength) \o <<".", ".", ".">>
      ELSE cleaned

\* sanitizeForDiscord
sanitizeForDiscord(message, maxLength) ==
  LET cleaned == stripAllHashtags(stripTag(message)) IN
    IF Len(cleaned) > maxLength
      THEN slice(cleaned, maxLength - 3) \o <<".", ".", ".">>
      ELSE cleaned

\* the messages and the limits sanitizeForDiscord is called with
SanitizeTexts == UNION {[1..k -> {"a", ".", "#", " "}] : k \in 0..MaxText}

CallSanitize ==
  /\ util = NoCall
  /\ \E message \in SanitizeTexts, maxLength \in 0..MaxLimit :
       util' = [fn |-> "sanitizeForDiscord",
                arg |-> [message |-> message, maxLength |-> maxLength],
                out |-> sanitizeForDiscord(message, maxLength)]
  /\ UtilFrame

UtilNext ==
  \/ CallSendToDiscord
  \/ CallFetchPost
  \/ CallResolveWebhook
  \/ CallStripTag
  \/ CallSanitize

SpecUtil == RaceInit /\ [][UtilNext]_vars

(***************************************************************************)
(* Properties                                                              *)
(***************************************************************************)
Last(seq) == seq[Len(seq)]

\* exactly one event was appended to the post's log in this step
Appended(p) ==
  /\ Len(events'[p]) = Len(events[p]) + 1
  /\ SubSeq(events'[p], 1, Len(events[p])) = events[p]

\* the row of p exists and its status changes in this step
StatusChanges(p) ==
  /\ posts[p] # NoRow
  /\ posts'[p].status # posts[p].status

\* the names of the events of the post, in order
EventNames(p) == [i \in 1..Len(events[p]) |-> events[p][i].event]

\* C1: a new row starts in received and every change of a row's status is
\* an edge of the transition table.
C1_OnlyTableEdges ==
  [][\A p \in PostIds :
       /\ (posts[p] = NoRow /\ posts'[p] # NoRow) => posts'[p].status = "received"
       /\ StatusChanges(p) =>
            posts'[p].status \in VALID_TRANSITIONS[posts[p].status]]_vars

\* C2: of two concurrent transitionPost calls for the same edge at most one
\* succeeds: a call never performs its update on a row on which the same edge
\* has been taken since the call read it (the row as read with the target
\* status, its last event status_<target>), so no edge gets two events.
C2_OneSuccessPerEdge ==
  [][\A w \in Workers :
       (wk[w].pc = "tp_write" /\ wk'[w].pc # "tp_write") =>
         ~ /\ wk[w].rd.status # wk[w].to
           /\ posts[wk[w].post] =
                TransitionData(wk[w].rd, wk[w].to, wk[w].err, wk[w].msgId)
           /\ Last(events[wk[w].post]).event = "status_" \o wk[w].to]_vars

\* C3: once a row is delivered or ignored, no step of the pipeline changes
\* any field of it.
C3_TerminalRowsFrozen ==
  [][\A p \in PostIds :
       posts[p].status \in {"delivered", "ignored"} => posts'[p] = posts[p]]_vars

\* C4: an ambiguous sink outcome leads to the transition to needs_review with
\* last_error set, not to markForRetry and not to a raise, and while the row
\* is in needs_review no sink call is made for the post.
C4_NoSinkCallInNeedsReview ==
  [][/\ \A w \in Workers :
          (wk[w].pc = "log" /\ wk'[w].pc # "log" /\ wk[w].send.ambiguous) =>
            /\ wk'[w].pc = "tp_read"
            /\ wk'[w].to = "needs_review"
            /\ wk'[w].err = wk[w].send.error
            /\ wk'[w].ret = "return"
     /\ \A p \in PostIds :
          posts[p].status = "needs_review" => sinkCalls'[p] = sinkCalls[p]]_vars

\* the post the delivery r is at in its enqueue loop
ItemPost(r) == req[r].items[req[r].i].postId

\* rows inserted for p: every insert writes one webhook_received event
Inserts(p) ==
  Cardinality({i \in 1..Len(events[p]) : events[p][i].event = "webhook_received"})

\* C5: for a row in delivered or ignored, a replayed webhook for the post and
\* a re-executed job for it cause no fetch and no sink call and leave the row
\* (and the queue, for the replay) unchanged: the execution returns after its
\* read, the delivery moves on without creating or enqueueing.
C5_TerminalReplayIsNoOp ==
  [][/\ \A w \in Workers :
          (/\ wk[w].pc = "load"
           /\ wk'[w] # wk[w]
           /\ posts[JobPost(wk[w])].status \in {"delivered", "ignored"}) =>
            /\ wk'[w].pc \in {"load", "complete"}
            /\ wk'[w].post = Null
            /\ UNCHANGED <<posts, events, deliveryLogs, fetchCalls, sinkCalls>>
     /\ \A r \in Reqs :
          (/\ req[r].pc \in {"find", "create", "reread", "send"}
           /\ req'[r] # req[r]
           /\ posts[ItemPost(r)].status \in {"delivered", "ignored"}) =>
            /\ req'[r].pc \notin {"create", "send"} \/ req'[r].i # req[r].i
            /\ UNCHANGED <<posts, events, deliveryLogs, queue,
                           fetchCalls, sinkCalls>>]_vars

\* a delivered row whose job was executed again after a replayed delivery:
\* still one fetch and one sink call
C5_Witness ==
  /\ posts["p1"].status = "delivered"
  /\ req[2].pc = "done"
  /\ queue[1].key = "p1" /\ queue[1].retrycount = 1 /\ queue[1].state = "completed"
  /\ fetchCalls["p1"] = 1
  /\ sinkCalls["p1"] = 1

\* C6: whatever the interleaving of identical deliveries, a post never has
\* two rows (one insert at most, and a row exactly when there was an insert),
\* a delivery past getOrCreatePost has its row, and the post has at most one
\* live job.
C6_OneRowOneLiveJob ==
  \A p \in PostIds :
    /\ Inserts(p) <= 1
    /\ (posts[p] # NoRow) <=> (Inserts(p) = 1)
    /\ \A r \in Reqs :
         (req[r].pc \in {"reread", "send"} /\ ItemPost(r) = p) => posts[p] # NoRow
    /\ Cardinality(LiveJobs(queue, p)) <= 1

\* two deliveries raced: one lost the insert on the unique index, the other
\* created the row and enqueued its job
C6_Witness ==
  /\ req[1].pc = "reread" \/ req[2].pc = "reread"
  /\ posts["p1"] # NoRow
  /\ Cardinality(LiveJobs(queue, "p1")) = 1

\* C7: when the ingress has finished its deliveries, a post has exactly one
\* job enqueued if and only if it has a row created by the ingress.
C7_JobIffRowCreated ==
  (\A r \in Reqs : req[r].pc \in {"idle", "done"}) =>
    \A p \in PostIds :
      (posts[p] # NoRow) <=> (Cardinality(JobsOf(queue, p)) = 1)

\* C8: a job whose fetch answered with an author that is not the page never
\* gets a sink call, whether or not its payload carries a message.
C8_NoSinkCallForForeignAuthor ==
  \A w \in Workers :
    wk[w].fetchError = ErrNotFromPage => wk[w].pc # "log"

C10_RejectedTransitionIsNoOp ==
  [][\A w \in Workers :
       (/\ wk[w].pc = "tp_read"
        /\ wk'[w] # wk[w]
        /\ \/ posts[wk[w].post] = NoRow
           \/ wk[w].to \notin VALID_TRANSITIONS[posts[wk[w].post].status]) =>
         /\ wk'[w].result = "null"
         /\ wk'[w].pc # "tp_write"
         /\ UNCHANGED <<posts, events>>]_vars

\* two calls were answered with null, one that found no row and one that
\* asked a row in received for delivered: the row is as it was created
C10_Witness ==
  /\ wk[1].pc = "idle" /\ wk[1].result = "null" /\ wk[1].rd = NoRow
  /\ wk[2].pc = "idle" /\ wk[2].result = "null" /\ wk[2].rd = NewRow
  /\ wk[2].to = "delivered"
  /\ posts["p1"] = NewRow
  /\ EventNames("p1") = <<"webhook_received">>

\* C11: when a transition processPost asked for is rejected (transitionPost
\* answered null), that execution makes no upstream fetch, no data write to
\* the row and no sink call afterwards.
C11_RejectedStepStopsExecution ==
  \A w \in Workers :
    wk[w].result = "null" => wk[w].pc \notin {"fetch", "update", "send", "log"}

\* C12: in every state and for every row, discord_msg_id is non-null exactly
\* when the status is delivered, whatever the sink's 2xx answer carried.
C12_MsgIdIffDelivered ==
  \A p \in PostIds :
    posts[p] # NoRow =>
      ((posts[p].discordMsgId # Null) <=> (posts[p].status = "delivered"))

\* the post has a delivery_logs row with success = true
HasSuccessLog(logs) == \E j \in 1..Len(logs) : logs[j]

\* C13: a status_delivered event is appended only for a post that already has
\* a delivery_logs row with success = true, and delivery_logs rows are never
\* removed, so every post with a status_delivered event has such a row.
C13_DeliveredHasSuccessLog ==
  [][\A p \in PostIds :
       /\ (Appended(p) /\ Last(events'[p]).event = "status_delivered") =>
            HasSuccessLog(deliveryLogs[p])
       /\ Len(deliveryLogs'[p]) >= Len(deliveryLogs[p])
       /\ SubSeq(deliveryLogs'[p], 1, Len(deliveryLogs[p])) = deliveryLogs[p]]_vars

\* a post delivered at its second attempt: a failed delivery log, then a
\* successful one, then the status_delivered event
C13_Witness ==
  /\ deliveryLogs["p1"] = <<FALSE, TRUE>>
  /\ posts["p1"].status = "delivered"
  /\ Last(events["p1"]).event = "status_delivered"

\* C14: retry_count of a row never decreases, whatever the interleaving of
\* the workers' calls.
C14_RetryCountNeverDecreases ==
  [][\A p \in PostIds :
       posts[p] # NoRow => posts'[p].retryCount >= posts[p].retryCount]_vars

RetryableErrors == {ErrFetchRetryable, ErrRateLimited}

FetchErrors == {ErrFetchRetryable, ErrFetchFatal, ErrNotFromPage}

\* C17: on a fetch error processPost does one of three things. With a webhook
\* message it goes on with the post built from the webhook data, and neither
\* that step nor the data write changes retry_count or last_error. Without
\* one, a retryable error leads to markForRetry and the raise, with the row
\* in received and one more retry; any other error leads to the transition
\* fetching -> failed with last_error the fetch error, and a normal return.
C17_FetchErrorHandling ==
  [][\A w \in Workers :
       LET p == wk[w].post IN
         /\ (/\ wk[w].pc = "fetch" /\ wk'[w].pc # "fetch"
             /\ wk'[w].fetchError \in FetchErrors) =>
              IF JobMessage(wk[w]) # Null
                THEN /\ wk'[w].pc = "update"
                     /\ \E age \in Ages :
                          wk'[w].fb =
                            FallbackPost(JobMessage(wk[w]),
                                         WebhookAge(JobCreatedTime(wk[w]), age))
                     /\ posts'[p] = posts[p]
              ELSE IF wk'[w].fetchError = ErrFetchRetryable
                THEN /\ wk'[w].pc = "mfr_read"
                     /\ wk'[w].err = ErrFetchRetryable
                     /\ wk'[w].ret = "throw"
              ELSE /\ wk'[w].pc = "tp_read"
                   /\ wk'[w].to = "failed"
                   /\ wk'[w].err = wk'[w].fetchError
                   /\ wk'[w].ret = "return"
         /\ (wk[w].pc = "update" /\ wk'[w].pc # "update") =>
              /\ posts'[p].retryCount = posts[p].retryCount
              /\ posts'[p].lastError = posts[p].lastError
         /\ (/\ wk[w].pc \in {"mfr_read", "mfr_write"}
             /\ wk[w].err = ErrFetchRetryable
             /\ wk'[w].pc = "fail") =>
              /\ posts'[p].status = "received"
              /\ posts'[p].retryCount = posts[p].retryCount + 1
         /\ (/\ wk[w].pc \in {"tp_read", "tp_write"}
             /\ wk[w].to = "failed"
             /\ wk[w].err \in FetchErrors
             /\ wk'[w].pc \in {"load", "complete"}) =>
              /\ posts[p].status = "fetching"
              /\ posts'[p].status = "failed"
              /\ posts'[p].lastError = wk[w].err]_vars

\* the worker w writes the fetched fields of a post that passes the age gate
TagFilterStep(w) ==
  /\ wk[w].pc = "update"
  /\ wk'[w].pc # "update"
  /\ ~isPostTooOld(wk[w].fb.created)

C19_ValidSignatureAnswered200 ==
  \A r \in Reqs :
    (req[r].pc = "done" /\ verifySignature(req[r].raw, req[r].sig)) =>
      req[r].reply = 200

\* C20: a request whose body reaches the handler is accepted (not answered
\* with 403) exactly when its signature header is the string "sha256="
\* followed by the hex HMAC of the body, and a rejected request writes no row
\* and no job.
C20_AcceptsIffExactSignature ==
  \A r \in Reqs :
    (req[r].raw \in RawBodies \ {"not_json"}) =>
      /\ (req[r].reply # 403) <=> (req[r].sig = <<"sha256=">> \o hmacHex(req[r].raw))
      /\ req[r].reply = 403 =>
           /\ req[r].pc = "done"
           /\ \A p \in PostIds : posts[p] = NoRow
           /\ queue = <<>>

\* the callers whose getOrCreatePost call for p has returned created = true
CreatedCallers(p) ==
  {r \in Reqs : req[r].pc = "returned" /\ req[r].created /\ ItemPost(r) = p}

\* C21: of the concurrent getOrCreatePost calls for a post, a call returns
\* only when the post has its row, it reports created = true exactly when it
\* is the call that inserted the row, a post never gets a second insert, so
\* exactly one call reports created = true for a post that has its row, and
\* the post has one row exactly when there was an insert; a call that finds
\* the row returns created = false and writes nothing. A call ends without a result only when a store
\* call of its own failed.
C21_ConcurrentCreateCollapses ==
  [][/\ \A p \in PostIds :
          /\ Inserts(p) <= 1
          /\ (posts[p] # NoRow) <=> (Inserts(p) = 1)
          /\ Cardinality(CreatedCallers(p)) <= 1
          /\ (posts[p] = NoRow /\ posts'[p] # NoRow) =>
               \E r \in Reqs : /\ req[r].pc = "create" /\ ItemPost(r) = p
                                /\ req'[r].pc = "returned" /\ req'[r].created
     /\ \A r \in Reqs :
          /\ (req[r].pc \in {"find", "create", "reread"} /\ req'[r].pc = "returned") =>
               /\ posts'[ItemPost(r)] # NoRow
               /\ req'[r].created <=> (posts[ItemPost(r)] = NoRow)
               /\ req'[r].created =>
                    /\ posts'[ItemPost(r)] = NewRow
                    /\ Appended(ItemPost(r))
                    /\ Last(events'[ItemPost(r)]).event = "webhook_received"
               /\ ~req'[r].created => UNCHANGED <<posts, events>>
          /\ (req[r].pc = "find" /\ req'[r] # req[r] /\ posts[ItemPost(r)] # NoRow) =>
               /\ req'[r].pc \in {"returned", "threw"}
               /\ ~req'[r].created
               /\ UNCHANGED <<posts, events>>
          /\ (req[r].pc = "reread" /\ req'[r] # req[r]) =>
               req'[r].pc = "returned" /\ ~req'[r].created]_vars

\* two concurrent calls for a new post have returned, one with created = true
\* and one with created = false, and the post has its one row
C21_Witness ==
  /\ calls = 2
  /\ req[1].pc = "returned" /\ req[2].pc = "returned"
  /\ ItemPost(1) = "p1" /\ ItemPost(2) = "p1"
  /\ req[1].created # req[2].created
  /\ posts["p1"] = NewRow
  /\ Inserts("p1") = 1

\* C22: with ALERTS_ENABLED false, processPost on a row that is neither
\* delivered nor ignored returns after its read without raising: the worker
\* goes on to the next job or resolves, no fetch and no sink call is made, no
\* event and no delivery log is appended and the row is unchanged; so with
\* the switch off no fetch or sink call is ever made and no row leaves
\* received.
C22_KillSwitchIsNoOp ==
  [][/\ \A w \in Workers :
          (/\ wk[w].pc = "load"
           /\ wk'[w] # wk[w]
           /\ ~config.ALERTS_ENABLED
           /\ posts[JobPost(wk[w])] # NoRow
           /\ posts[JobPost(wk[w])].status \notin {"delivered", "ignored"}) =>
            /\ wk'[w].pc \in {"load", "complete"}
            /\ wk'[w].post = Null
            /\ UNCHANGED <<posts, events, deliveryLogs, fetchCalls, sinkCalls>>
     /\ ~config.ALERTS_ENABLED =>
          /\ \A w \in Workers : wk[w].pc \in {"idle", "load", "complete"}
          /\ \A p \in PostIds :
               /\ fetchCalls[p] = 0 /\ sinkCalls[p] = 0
               /\ deliveryLogs[p] = <<>>
               /\ posts[p] \in {NoRow, NewRow}]_vars

\* with the switch off, the jobs of two posts were executed and completed:
\* both rows are as the ingress created them
C22_Witness ==
  /\ ~config.ALERTS_ENABLED
  /\ Len(queue) = 2
  /\ queue[1].state = "completed" /\ queue[2].state = "completed"
  /\ posts["p1"] = NewRow /\ posts["p2"] = NewRow
  /\ EventNames("p1") = <<"webhook_received">>
  /\ EventNames("p2") = <<"webhook_received">>

\* C23: after the fetch or the webhook fallback, with MAX_POST_AGE_MINUTES > 0
\* a post whose created_time is too old or absent is transitioned to ignored
\* with the reason "Post too old", whatever its hashtags, and gets no sink
\* call; with MAX_POST_AGE_MINUTES = 0, and for a fresh post, the age gate
\* lets the post through to the tag filter.
C23_AgeGateIgnoresOldPosts ==
  [][\A w \in Workers :
       LET p == wk[w].post IN
         /\ (wk[w].pc = "update" /\ wk'[w].pc # "update") =>
              IF /\ config.MAX_POST_AGE_MINUTES > 0
                 /\ wk[w].fb.created \in {"old", "absent"}
                THEN /\ wk'[w].pc = "tp_read"
                     /\ wk'[w].to = "ignored"
                     /\ wk'[w].details = "Post too old"
                     /\ wk'[w].ret = "return"
                ELSE wk'[w].details # "Post too old"
         /\ (wk[w].to = "ignored" /\ wk[w].details = "Post too old"
             /\ wk'[w] # wk[w]) =>
              /\ sinkCalls' = sinkCalls
              /\ wk[w].pc = "tp_read" => wk'[w].pc = "tp_write"
              /\ wk[w].pc = "tp_write" =>
                   /\ posts'[p].status = "ignored"
                   /\ Appended(p)
                   /\ Last(events'[p]) = Event("status_ignored", "Post too old")
                   /\ wk'[w].pc \in {"load", "complete"}]_vars

\* the events of a delivery without detour
HappyPathEvents ==
  <<"webhook_received", "status_fetching", "status_eligible",
    "status_sending", "status_delivered">>

\* C24: a post that the ingress created and the worker delivered without any
\* failure on its way (no failed sink call, no retry, no error recorded) has
\* exactly the events webhook_received, status_fetching, status_eligible,
\* status_sending, status_delivered, in this order and once each, and exactly
\* one delivery_logs row, with success = true.
C24_HappyPathEventsAndLog ==
  \A p \in PostIds :
    (/\ posts[p].status = "delivered"
     /\ posts[p].retryCount = 0
     /\ posts[p].lastError = Null
     /\ \A j \in 1..Len(deliveryLogs[p]) : deliveryLogs[p][j]
     /\ \A j \in 1..Len(events[p]) : events[p][j].event # "marked_for_retry") =>
      /\ EventNames(p) = HappyPathEvents
      /\ deliveryLogs[p] = <<TRUE>>

\* the workers whose sink call for p has completed and is not logged yet
Unlogged(p) == {w \in Workers : wk[w].pc = "log" /\ wk[w].post = p}

\* C25: the step after every sink call, whatever its outcome, appends one
\* delivery_logs row for the post with the outcome's success flag, before the
\* transition or the markForRetry the outcome leads to; rows are appended by
\* no other step, so the rows of a post are as many as its sink calls, less
\* the calls whose row is the next step of their worker.
C25_OneLogPerSinkCall ==
  [][/\ \A w \in Workers :
          LET p == wk[w].post IN
            /\ (wk[w].pc = "send" /\ wk'[w] # wk[w]) =>
                 /\ wk'[w].pc = "log"
                 /\ wk'[w].send \in SendResults
                 /\ sinkCalls'[p] = sinkCalls[p] + 1
                 /\ UNCHANGED <<posts, events, deliveryLogs>>
            /\ (wk[w].pc = "log" /\ wk'[w] # wk[w]) =>
                 /\ deliveryLogs'[p] = Append(deliveryLogs[p], wk[w].send.success)
                 /\ UNCHANGED <<posts, events, sinkCalls>>
                 /\ wk'[w].pc \in {"tp_read", "mfr_read"}
     /\ \A p \in PostIds :
          /\ Len(deliveryLogs[p]) + Cardinality(Unlogged(p)) = sinkCalls[p]
          /\ deliveryLogs'[p] # deliveryLogs[p] =>
               \E w \in Unlogged(p) : wk'[w].pc # "log"
          /\ sinkCalls'[p] # sinkCalls[p] =>
               \E w \in Workers : wk[w].pc = "send" /\ wk[w].post = p]_vars

\* the failed first sink call of the post is logged, and its second sink
\* call has just answered, ambiguously, and is about to be logged
C25_Witness ==
  /\ sinkCalls["p1"] = 2
  /\ deliveryLogs["p1"] = <<FALSE>>
  /\ \E w \in Workers : /\ wk[w].pc = "log" /\ wk[w].post = "p1"
                        /\ wk[w].send.ambiguous

\* C26: no step of a markForRetry call taken while the row is delivered
\* changes the row or the events of the post, also when the row became
\* delivered between the read and the write of the call.
C26_MarkForRetryKeepsDelivered ==
  [][\A w \in Workers :
       (/\ wk[w].pc \in {"mfr_read", "mfr_write"}
        /\ wk'[w] # wk[w]
        /\ posts[wk[w].post].status = "delivered") =>
         /\ posts'[wk[w].post] = posts[wk[w].post]
         /\ events'[wk[w].post] = events[wk[w].post]]_vars

\* the marked_for_retry events of the post
Marks(p) == {i \in 1..Len(events[p]) : events[p][i].event = "marked_for_retry"}

\* C27: a markForRetry call on a row that exists and is not delivered goes on
\* to its update, which sets the status to received and last_error to the
\* error of the call, adds exactly 1 to retry_count and appends one
\* marked_for_retry event; no other step changes retry_count or last_error,
\* so after n calls retry_count is n and last_error is the error of the last
\* call.
C27_MarkForRetryCounts ==
  [][/\ \A w \in Workers :
          LET p == wk[w].post IN
            /\ (/\ wk[w].pc = "mfr_read" /\ wk'[w] # wk[w]
                /\ posts[p] # NoRow /\ posts[p].status # "delivered") =>
                 wk'[w].pc = "mfr_write"
            /\ (wk[w].pc = "mfr_write" /\ wk'[w] # wk[w]) =>
                 /\ posts'[p].status = "received"
                 /\ posts'[p].lastError = wk[w].err
                 /\ posts'[p].retryCount = posts[p].retryCount + 1
                 /\ Appended(p)
                 /\ Last(events'[p]) = Event("marked_for_retry", wk[w].err)
     /\ \A p \in PostIds :
          /\ posts[p].retryCount = Cardinality(Marks(p))
          /\ posts[p].lastError =
               IF Marks(p) = {} THEN Null
               ELSE events[p][CHOOSE i \in Marks(p) : \A j \in Marks(p) : j <= i].details]_vars

\* the bodies the claim lets create nothing: another object, another field,
\* another verb, no post_id
NotForUs == {"not_page", "other_field", "other_verb", "no_post_id"}

\* C28: a request writes a row or enqueues a job only while it handles a page
\* object whose change has field "feed", verb "add" and a post_id, and the
\* row and the job are for that post_id; a request whose object is not page,
\* or whose change has another field, another verb or no post_id, is
\* answered at once (with 200 when its signature is valid) and no row and no
\* job exist after it.
C28_RowsOnlyForFeedAdd ==
  [][\A r \in Reqs :
       /\ (req'[r] # req[r] /\ (posts' # posts \/ queue' # queue)) =>
            /\ req[r].raw \in PageBodies
            /\ Change(req[r].raw).field = "feed"
            /\ Change(req[r].raw).verb = "add"
            /\ Change(req[r].raw).post_id # Null
            /\ \A p \in PostIds \ {Change(req[r].raw).post_id} :
                 posts'[p] = posts[p]
            /\ \A i \in 1..Len(queue') :
                 i > Len(queue) => queue'[i].key = Change(req[r].raw).post_id
       /\ (req[r].pc = "idle" /\ req'[r].raw \in NotForUs) =>
            /\ req'[r].pc = "done"
            /\ verifySignature(req'[r].raw, req'[r].sig) => req'[r].reply = 200
            /\ UNCHANGED <<posts, events, queue>>
       /\ req[r].raw \in NotForUs =>
            /\ \A p \in PostIds : posts[p] = NoRow
            /\ queue = <<>>]_vars

\* a signed page payload whose only change has the verb "edited" was
\* answered with 200 and left no row and no job
C28_Witness ==
  /\ req[1].pc = "done"
  /\ req[1].raw = "other_verb"
  /\ verifySignature(req[1].raw, req[1].sig)
  /\ req[1].reply = 200
  /\ \A p \in PostIds : posts[p] = NoRow
  /\ queue = <<>>

\* C29 as stated: the handshake answers 200 with the challenge exactly when
\* mode is "subscribe", verify_token is the configured token and the query
\* has a challenge; otherwise 403 when the mode or the token is wrong and 400
\* when only the challenge is missing; it writes no row, no event, no job.
C29_HandshakeAsStated ==
  [][\A r \in Reqs :
       (req[r].pc = "idle" /\ req'[r].pc = "done") =>
         LET q == req'[r].query
             modeOk == q.mode = "subscribe"
             tokenOk == q.token = "verify-token"
             challengeOk == q.challenge # Null IN
           /\ (req'[r].reply = 200) <=> (modeOk /\ tokenOk /\ challengeOk)
           /\ req'[r].reply = 200 => req'[r].text = q.challenge
           /\ (req'[r].reply = 403) <=> (~modeOk \/ ~tokenOk)
           /\ (req'[r].reply = 400) <=> (modeOk /\ tokenOk /\ ~challengeOk)
           /\ UNCHANGED <<posts, events, deliveryLogs, queue>>]_vars

\* C29 amended: the handshake answers 200 with the challenge as its body
\* exactly when mode is "subscribe", verify_token is the configured token and
\* the challenge is given and not empty; it answers 403 when the mode or the
\* token is wrong and 400 when only the challenge is missing or empty; and
\* the step that answers writes no row, no event and no job.
C29_HandshakeAnswers ==
  [][\A r \in Reqs :
       (req[r].pc = "idle" /\ req'[r].pc = "done") =>
         LET q == req'[r].query
             modeOk == q.mode = "subscribe"
             tokenOk == q.token = "verify-token"
             challengeOk == q.challenge \notin {Null, ""} IN
           /\ req'[r].reply \in {200, 400, 403}
           /\ (req'[r].reply = 200) <=> (modeOk /\ tokenOk /\ challengeOk)
           /\ req'[r].reply = 200 => req'[r].text = q.challenge
           /\ (req'[r].reply = 403) <=> (~modeOk \/ ~tokenOk)
           /\ (req'[r].reply = 400) <=> (modeOk /\ tokenOk /\ ~challengeOk)
           /\ UNCHANGED <<posts, events, deliveryLogs, queue>>]_vars

\* after the delivery of a post, a handshake was answered with its challenge
\* and the row, its event and its job are as the delivery left them
C29_Witness ==
  /\ req[1].pc = "done" /\ req[1].reply = 200 /\ req[1].query = NoQuery
  /\ req[2].pc = "done" /\ req[2].reply = 200
  /\ req[2].query = [mode |-> "subscribe", token |-> META_VERIFY_TOKEN,
                     challenge |-> "c2"]
  /\ req[2].text = "c2"
  /\ posts["p1"] = NewRow
  /\ EventNames("p1") = <<"webhook_received">>
  /\ Len(queue) = 1

\* the worker w is in the last call of an execution that made a sink call
AfterSinkCall(w) ==
  \/ wk[w].to \in {"delivered", "needs_review"}
  \/ wk[w].to = "failed" /\ wk[w].err = ErrSinkFatal
  \/ wk[w].pc \in {"mfr_read", "mfr_write"} /\ wk[w].err = ErrRateLimited

\* C30: a row in failed or needs_review always has a last_error, and a job
\* execution that made a sink call or got a non-retryable fetch error ends
\* with the row in delivered, failed or needs_review, or in received with
\* last_error set.
C30_NoSilentDrop ==
  [][/\ \A p \in PostIds :
          posts[p].status \in {"failed", "needs_review"} =>
            posts[p].lastError # Null
     /\ \A w \in Workers :
          (/\ wk[w].pc \in {"tp_read", "tp_write", "mfr_read", "mfr_write"}
           /\ wk'[w].pc \in {"load", "complete", "fail"}
           /\ \/ AfterSinkCall(w)
              \/ wk[w].fetchError \in {ErrFetchFatal, ErrNotFromPage}) =>
            \/ posts'[wk[w].post].status \in {"delivered", "failed", "needs_review"}
            \/ /\ posts'[wk[w].post].status = "received"
               /\ posts'[wk[w].post].lastError # Null]_vars

C32_FetchRetryableIffStated ==
  util.fn = "fetchPost" =>
    LET outcome == util.arg
        res == util.out IN
      /\ res.retryable <=>
           \/ outcome.kind = "network"
           \/ /\ outcome.kind = "response"
              /\ outcome.status \notin 200..299
              /\ outcome.code \in {1, 2, 4, 17} \/ outcome.status >= 500
      /\ (outcome.kind = "response" /\ outcome.status \in 200..299
          /\ outcome.from # PAGE_ID) => (~res.success /\ ~res.retryable)

\* C33: for every message, route map and priority list, a message that
\* contains (as a substring, whatever the case) the tag of at least one route
\* is sent to the URL of the contained route tag that comes first in the
\* priority list; a message that contains no route tag is sent to the
\* default URL.
C33_RoutedByPriority ==
  util.fn = "resolveWebhook" =>
    LET msgLower == toLowerCase(util.arg.message)
        routes == util.arg.routes
        order == [i \in 1..Len(util.arg.priority) |->
                    toLowerCase(util.arg.priority[i])]
        matching == {tag \in DOMAIN routes : includes(msgLower, tag)} IN
      IF matching = {}
        THEN util.out = DISCORD_WEBHOOK_URL
        ELSE \E i \in 1..Len(order) :
               /\ order[i] \in matching
               /\ \A j \in 1..(i - 1) : order[j] \notin matching
               /\ util.out = routes[order[i]]

\* C34: for every message, the text stripTag returns does not contain the
\* trigger tag (hasTag of it is false), also when taking an occurrence out
\* joins the characters around it into a new occurrence.
C34_StrippedHasNoTag ==
  util.fn = "stripTag" => ~patternTest(util.out)

\* the text ends with the indicator of a truncation
EndsWithDots(text) ==
  Len(text) >= 3 /\ SubSeq(text, Len(text) - 2, Len(text)) = <<".", ".", ".">>

\* C35 as stated: for every message and every limit, the result of
\* sanitizeForDiscord is at most the limit long and ends with "..." exactly
\* when the message was longer than the limit.
C35_TruncationAsStated ==
  util.fn = "sanitizeForDiscord" =>
    /\ Len(util.out) <= util.arg.maxLength
    /\ EndsWithDots(util.out) <=> (Len(util.arg.message) > util.arg.maxLength)

\* C35: for every message and every limit of at least 3, the result of
\* sanitizeForDiscord is at most the limit long; when the message without the
\* trigger tag and without hashtags is longer than the limit, the result is
\* its first limit - 3 characters followed by "..." and is exactly the limit
\* long; otherwise the result is that text, unchanged.
C35_Truncation ==
  (util.fn = "sanitizeForDiscord" /\ util.arg.maxLength >= 3) =>
    LET cleaned == stripAllHashtags(stripTag(util.arg.message))
        limit == util.arg.maxLength IN
      /\ Len(util.out) <= limit
      /\ IF Len(cleaned) > limit
           THEN /\ util.out = SubSeq(cleaned, 1, limit - 3) \o <<".", ".", ".">>
                /\ Len(util.out) = limit
           ELSE util.out = cleaned

\* a message of four characters was cut to the limit of 3: only the dots left
C35_Witness ==
  /\ util.fn = "sanitizeForDiscord"
  /\ util.arg.message = <<"a", "a", "a", "a">>
  /\ util.arg.maxLength = 3
  /\ util.out = <<".", ".", ".">>

\* C36: the worker registers its handler and claims its first job only after
\* verifyPageAccess and testWebhook have both answered true; when one of them
\* answers false the worker exits with code 1, and a worker that has not
\* registered its handler has claimed no job and processed none.
C36_ProbesBeforeJobs ==
  /\ wk[1].pc \notin {"verifyPageAccess", "testWebhook", "exit(1)"} =>
       (startup[1].fbOk = "true" /\ startup[1].discordOk = "true")
  /\ (startup[1].fbOk = "false" \/ startup[1].discordOk = "false") =>
       wk[1].pc = "exit(1)"
  /\ wk[1].pc \in {"verifyPageAccess", "testWebhook", "bossStart", "bossWork",
                   "exit(1)"} =>
       /\ \A i \in 1..Len(queue) : queue[i].state = "created"
       /\ \A p \in PostIds :
            /\ posts[p].status \in {"absent", "received"}
            /\ fetchCalls[p] = 0 /\ sinkCalls[p] = 0

\* both probes answered true and the worker has claimed its first job
C36_Witness ==
  /\ startup[1] = [fbOk |-> "true", discordOk |-> "true"]
  /\ wk[1].pc = "load"
  /\ \E i \in 1..Len(queue) : queue[i].state = "active"

\* C37: every sink call for a post is made while the post's row has status
\* sending, which the same execution reached by its transition from eligible
\* to sending (transitionPost did not answer null); so no sink call is made
\* for a row in failed, needs_review, received or fetching.
C37_SinkCallOnlyWhileSending ==
  [][\A w \in Workers :
       (wk[w].pc = "send" /\ sinkCalls'[wk[w].post] # sinkCalls[wk[w].post]) =>
         /\ posts[wk[w].post].status = "sending"
         /\ wk[w].result # "null"]_vars

\* C38: the jobs of a batch are independent: when a post of the batch raises
\* and the queue hands the jobs of the batch out again, the execution of such
\* a job for a post that had ended in delivered, ignored, failed or
\* needs_review makes no fetch and no sink call and changes nothing of the row.
C38_BatchJobsIndependent ==
  [][\A w \in Workers :
       wk[w].batch # <<>> =>
         LET job == queue[wk[w].batch[wk[w].pos]]
             p == job.key IN
           (/\ job.retrycount > 0
            /\ posts[p].status \in {"delivered", "ignored", "failed", "needs_review"}) =>
             /\ fetchCalls'[p] = fetchCalls[p]
             /\ sinkCalls'[p] = sinkCalls[p]
             /\ posts'[p] = posts[p]]_vars

\* the step ends the execution of worker w: processPost returns or raises
EndsExecution(w) ==
  /\ wk[w].pc \in {"load", "tp_read", "tp_write", "mfr_read", "mfr_write"}
  /\ \/ wk'[w].pc \in {"complete", "fail"}
     \/ wk'[w].pc = "load" /\ wk'[w].pos # wk[w].pos

\* C39: a processPost execution that read its row in received does not leave
\* the row in fetching, eligible or sending when it ends: after a raise, or a
\* return by the kill switch, the row is in received; after any other return
\* it is in delivered, ignored, failed or needs_review.
C39_NoIntermediateStatusLeft ==
  [][\A w \in Workers :
       wk[w].batch # <<>> =>
         LET p == JobPost(wk[w])
             started == IF wk[w].pc = "load" THEN posts[p].status
                                             ELSE wk[w].status IN
           (EndsExecution(w) /\ started = "received") =>
             IF wk'[w].pc = "fail" \/ ~config.ALERTS_ENABLED
               THEN posts'[p].status = "received"
               ELSE posts'[p].status \in
                      {"delivered", "ignored", "failed", "needs_review"}]_vars

\* the queue is done with the post p and the worker is idle: the row is in
\* delivered, ignored, failed or needs_review, or the job has used up its
\* retries and the row is in received with last_error set
Settled(p) ==
  /\ wk[1].pc = "idle"
  /\ LiveJobs(queue, p) = {}
  /\ \/ posts[p].status \in {"delivered", "ignored", "failed", "needs_review"}
     \/ /\ \E i \in JobsOf(queue, p) :
             queue[i].state = "failed" /\ queue[i].retrycount = 5
        /\ posts[p].status = "received"
        /\ posts[p].lastError # Null
        /\ posts[p].retryCount <= 6

\* C40: with alerts on and the worker scheduled fairly, every post with a job
\* in the queue eventually reaches delivered, ignored, failed or
\* needs_review, or its job uses up the 5 retries of the queue and the row
\* stays in received with last_error set and retry_count at most 6; then the
\* worker is idle and the post has no job left to run.
C40_EveryJobSettles ==
  \A p \in PostIds : (JobsOf(queue, p) # {}) ~> Settled(p)

====
